---------------------------- MODULE Spec2Model ----------------------------
(***************************************************************************)
(* A model of querybuilder: the Rule tree (rules.py: construction from a   *)
(* raw object, to_dict/dumps, loads, equality, is_valid) and the Filter    *)
(* registry with its operator dispatch, coercion and field validation      *)
(* (filters.py).                                                           *)
(*                                                                         *)
(* Python objects are tagged records, the tag in field k:                  *)
(*   [k |-> "none"]                 None                                   *)
(*   [k |-> "bool", b |-> TRUE]     True / False                           *)
(*   [k |-> "num",  m |-> 10250]    a number, in thousandths (10.25)       *)
(*   [k |-> "str",  s |-> "henry"]  a string                               *)
(*   [k |-> "list", items |-> <<>>] a list                                 *)
(*   [k |-> "dict", d |-> f]        a dict; f maps every key of Keys to    *)
(*                                  its value or to Absent                 *)
(* Enum members are written by their member NAME ("IS_NULL"); the value    *)
(* they carry ("is_null") is looked up in the tables of constants.py.      *)
(***************************************************************************)
EXTENDS Integers, Sequences, FiniteSets, TLC

VARIABLES
    py,         \* major version of the interpreter running the package (setup.py classifiers)
    registry,   \* Filter._filter_registry: id -> descriptor, or NoFilter
    input,      \* the raw object last handed to Rule(...)
    parsed,     \* outcome of that construction: a Rule or the exception raised
    dumped,     \* JSON document produced by the last dumps() of the current Rule
    reloaded,   \* outcome of the last Rule.loads() of that document
    host,       \* the Filters instance of the last is_valid call: its item, and the
                \* order its filters iterate their validation functions in
    result,     \* outcome of the last is_valid call, with its trace of steps
    call        \* the last direct call of a method: its name, operands and outcome

vars == <<py, registry, input, parsed, dumped, reloaded, host, result, call>>

-----------------------------------------------------------------------------
(* Python values *)

None == [k |-> "none"]
Absent == [k |-> "absent"]
Bool(b) == [k |-> "bool", b |-> b]
Num(i) == [k |-> "num", m |-> i * 1000]
Milli(m) == [k |-> "num", m |-> m]
Str(s) == [k |-> "str", s |-> s]
List(xs) == [k |-> "list", items |-> xs]

\* the keys a raw rule object may carry: the nine the code reads and one it ignores
Keys == {"empty", "condition", "rules", "id", "field", "input", "operator", "type", "value", "valid"}

EmptyDict == [key \in Keys |-> Absent]
Dict(d) == [k |-> "dict", d |-> [key \in Keys |-> IF key \in DOMAIN d THEN d[key] ELSE Absent]]

\* the keys present in a dict
KeysOf(d) == {key \in Keys : d[key] # Absent}

\* dict.get(key): the value, or None when the key is missing
Get(d, key) == IF d[key] = Absent THEN None ELSE d[key]

\* bool(x)
Truthy(x) ==
    CASE x.k = "none" -> FALSE
      [] x.k = "bool" -> x.b
      [] x.k = "num" -> x.m # 0
      [] x.k = "str" -> x.s # ""
      [] x.k = "list" -> x.items # <<>>
      [] x.k = "dict" -> KeysOf(x.d) # {}

SetMin(S) == CHOOSE x \in S : \A y \in S : x <= y

-----------------------------------------------------------------------------
(* constants.py: the enumerations, member name -> value *)

Conditions == [AND |-> "AND", OR |-> "OR"]

Inputs ==
    [TEXT |-> "text", NUMBER |-> "number", TEXTAREA |-> "textarea",
     RADIO |-> "radio", CHECKBOX |-> "checkbox", SELECT |-> "select"]

Types ==
    [STRING |-> "string", INTEGER |-> "integer", DOUBLE |-> "double", DATE |-> "date",
     TIME |-> "time", DATETIME |-> "datetime", BOOLEAN |-> "boolean"]

Operators ==
    ("IS_NULL" :> "is_null") @@ ("IS_NOT_NULL" :> "is_not_null") @@
    ("EQUAL" :> "equal") @@ ("NOT_EQUAL" :> "not_equal") @@ ("LESS" :> "less") @@
    ("LESS_OR_EQUAL" :> "less_or_equal") @@ ("GREATER" :> "greater") @@
    ("GREATER_OR_EQUAL" :> "greater_or_equal") @@
    ("BETWEEN" :> "between") @@ ("NOT_BETWEEN" :> "not_between") @@
    ("BEGINS_WITH" :> "begins_with") @@ ("NOT_BEGINS_WITH" :> "not_begins_with") @@
    ("ENDS_WITH" :> "ends_with") @@ ("NOT_ENDS_WITH" :> "not_ends_with") @@
    ("IN" :> "in") @@ ("NOT_IN" :> "not_in") @@ ("IS_EMPTY" :> "is_empty") @@
    ("IS_NOT_EMPTY" :> "is_not_empty") @@ ("CONTAINS" :> "contains") @@
    ("NOT_CONTAINS" :> "not_contains")

unary_comparisons == {"IS_NULL", "IS_NOT_NULL"}
binary_comparisons ==
    {"EQUAL", "NOT_EQUAL", "LESS", "LESS_OR_EQUAL", "GREATER", "GREATER_OR_EQUAL"}
ternary_comparisons == {"BETWEEN", "NOT_BETWEEN"}
string_comparisons == {"BEGINS_WITH", "NOT_BEGINS_WITH", "ENDS_WITH", "NOT_ENDS_WITH"}
collection_comparisons ==
    {"IN", "NOT_IN", "IS_EMPTY", "IS_NOT_EMPTY", "CONTAINS", "NOT_CONTAINS"}

\* Enum(value): the member carrying the value, or ValueError
Ok(v) == [ok |-> TRUE, v |-> v]
Raise(e) == [ok |-> FALSE, err |-> e]

EnumCall(enum, value) ==
    IF value.k = "str" /\ \E mem \in DOMAIN enum : enum[mem] = value.s
    THEN Ok(CHOOSE mem \in DOMAIN enum : enum[mem] = value.s)
    ELSE Raise("ValueError")

-----------------------------------------------------------------------------
(* Python == on the values a rule carries *)

NumOf(x) == IF x.k = "bool" THEN (IF x.b THEN 1000 ELSE 0) ELSE x.m
IsNumber(x) == x.k \in {"bool", "num"}

RECURSIVE PyEq(_, _)
PyEq(a, b) ==
    IF IsNumber(a) /\ IsNumber(b) THEN NumOf(a) = NumOf(b)
    ELSE IF a.k # b.k THEN FALSE
    ELSE CASE a.k = "none" -> TRUE
           [] a.k = "str" -> a.s = b.s
           [] a.k = "list" ->
                /\ Len(a.items) = Len(b.items)
                /\ \A i \in DOMAIN a.items : PyEq(a.items[i], b.items[i])
           [] a.k = "dict" ->
                /\ KeysOf(a.d) = KeysOf(b.d)
                /\ \A key \in KeysOf(a.d) : PyEq(a.d[key], b.d[key])
           [] OTHER -> FALSE

-----------------------------------------------------------------------------
(* rules.py: class Rule *)

\* a rule_fields that forgets `value`
rule_fields_without_value == {"id", "field", "input", "operator", "type"}

rule_fields == {"id", "field", "input", "operator", "type", "value"}
group_fields == {"condition", "rules"}

\* the interpreters setup.py declares the package for
PythonVersions == {2, 3}

\* rules.py:108-109, `except ValueError as e: raise ValidationError(e.message)`:
\* exceptions carry .message on Python 2 only; on Python 3 reading it raises
\* AttributeError inside the handler.
except_ValueError(version) ==
    IF version = 2 THEN Raise("ValidationError") ELSE Raise("AttributeError")

EmptyRule == [is_group |-> FALSE, is_empty |-> TRUE]
GroupRule(condition, rules) ==
    [is_group |-> TRUE, is_empty |-> FALSE, condition |-> condition, rules |-> rules]
LeafRule(id, fld, inp, operator, type, value) ==
    [is_group |-> FALSE, is_empty |-> FALSE, id |-> id, field |-> fld, input |-> inp,
     operator |-> operator, type |-> type, value |-> value]

\* the branch of Rule.__init__ for a dict with all six leaf fields
RuleInitLeaf(d, version) ==
    LET inp == EnumCall(Inputs, d["input"])
        op == EnumCall(Operators, d["operator"])
        ty == EnumCall(Types, d["type"])
    IN  IF ~inp.ok \/ ~op.ok \/ ~ty.ok THEN except_ValueError(version)
        ELSE Ok(LeafRule(d["id"], d["field"], inp.v, op.v, ty.v, d["value"]))

\* Rule.__init__: the Rule built, as Ok(rule), or the exception raised
RECURSIVE Rule(_, _)
RuleInit(rule, version) ==
    IF rule.k # "dict" THEN Raise("ValidationError")
    ELSE LET d == rule.d IN
        IF Truthy(Get(d, "empty")) THEN Ok(EmptyRule)
        ELSE IF group_fields \subseteq KeysOf(d) THEN
            LET cond == EnumCall(Conditions, d["condition"]) IN
            IF ~cond.ok THEN except_ValueError(version)
            ELSE IF d["rules"].k # "list" THEN Raise("ValidationError")
            ELSE LET items == d["rules"].items
                     kids == [i \in DOMAIN items |-> Rule(items[i], version)]
                     bad == {i \in DOMAIN items : ~kids[i].ok}
                 IN  IF bad # {} THEN kids[SetMin(bad)]
                     ELSE Ok(GroupRule(cond.v, [i \in DOMAIN items |-> kids[i].v]))
        ELSE IF rule_fields \subseteq KeysOf(d) THEN RuleInitLeaf(d, version)
        ELSE Raise("ValidationError")

\* a constructor that tests for the leaf fields before the group fields
Rule_leaf_first(rule, version) ==
    IF /\ rule.k = "dict"
       /\ ~Truthy(Get(rule.d, "empty"))
       /\ rule_fields \subseteq KeysOf(rule.d)
    THEN RuleInitLeaf(rule.d, version)
    ELSE RuleInit(rule, version)

\* the call Rule(rule), which every construction goes through (the children of a
\* group included)
Rule(rule, version) == RuleInit(rule, version)

RECURSIVE to_dict(_)

\* a to_dict that leaves a leaf's `value` out
to_dict_without_value(self) ==
    IF self.is_empty THEN Dict([empty |-> Bool(TRUE)])
    ELSE IF self.is_group THEN
        Dict([condition |-> Str(Conditions[self.condition]),
              rules |-> List([i \in DOMAIN self.rules |-> to_dict(self.rules[i])])])
    ELSE
        Dict([id |-> self.id, field |-> self.field,
              input |-> Str(Inputs[self.input]),
              operator |-> Str(Operators[self.operator]),
              type |-> Str(Types[self.type])])

\* Rule.to_dict
to_dict(self) ==
    IF self.is_empty THEN Dict([empty |-> Bool(TRUE)])
    ELSE IF self.is_group THEN
        Dict([condition |-> Str(Conditions[self.condition]),
              rules |-> List([i \in DOMAIN self.rules |-> to_dict(self.rules[i])])])
    ELSE
        Dict([id |-> self.id, field |-> self.field,
              input |-> Str(Inputs[self.input]),
              operator |-> Str(Operators[self.operator]),
              type |-> Str(Types[self.type]),
              value |-> self.value])

\* an __eq__ for which a group's children need only be equal as collections,
\* whatever their order
RECURSIVE RuleEq_unordered(_, _)
RuleEq_unordered(self, other) ==
    IF ~(self.is_empty = other.is_empty /\ self.is_group = other.is_group) THEN FALSE
    ELSE IF self.is_empty THEN TRUE
    ELSE IF self.is_group THEN
        /\ self.condition = other.condition
        /\ Len(self.rules) = Len(other.rules)
        /\ \A i \in DOMAIN self.rules :
              \E j \in DOMAIN other.rules : RuleEq_unordered(self.rules[i], other.rules[j])
    ELSE /\ PyEq(self.id, other.id) /\ PyEq(self.field, other.field) /\ self.input = other.input
         /\ self.operator = other.operator /\ self.type = other.type /\ PyEq(self.value, other.value)

\* Rule.__eq__ (other is always a Rule here)
RECURSIVE RuleEq(_, _)
RuleEq(self, other) ==
    IF ~(self.is_empty = other.is_empty /\ self.is_group = other.is_group) THEN FALSE
    ELSE IF self.is_empty THEN TRUE
    ELSE IF self.is_group THEN
        /\ self.condition = other.condition
        /\ Len(self.rules) = Len(other.rules)
        /\ \A i \in DOMAIN self.rules : RuleEq(self.rules[i], other.rules[i])
    ELSE
        /\ PyEq(self.id, other.id)
        /\ PyEq(self.field, other.field)
        /\ self.input = other.input
        /\ self.operator = other.operator
        /\ self.type = other.type
        /\ PyEq(self.value, other.value)

-----------------------------------------------------------------------------
(* the json module: a document is a tree of JSON values, tagged in field j *)

JNull == [j |-> "null"]
JMissing == [j |-> "missing"]

\* json.dumps
RECURSIVE json_dumps(_)
json_dumps(x) ==
    CASE x.k = "none" -> JNull
      [] x.k = "bool" -> IF x.b THEN [j |-> "true"] ELSE [j |-> "false"]
      [] x.k = "num" -> [j |-> "number", m |-> x.m]
      [] x.k = "str" -> [j |-> "string", s |-> x.s]
      [] x.k = "list" ->
            [j |-> "array", elements |-> [i \in DOMAIN x.items |-> json_dumps(x.items[i])]]
      [] x.k = "dict" ->
            [j |-> "object",
             members |-> [key \in Keys |->
                            IF x.d[key] = Absent THEN JMissing ELSE json_dumps(x.d[key])]]

\* json.loads
RECURSIVE json_loads(_)
json_loads(doc) ==
    CASE doc.j = "null" -> None
      [] doc.j = "true" -> Bool(TRUE)
      [] doc.j = "false" -> Bool(FALSE)
      [] doc.j = "number" -> Milli(doc.m)
      [] doc.j = "string" -> Str(doc.s)
      [] doc.j = "array" ->
            List([i \in DOMAIN doc.elements |-> json_loads(doc.elements[i])])
      [] doc.j = "object" ->
            [k |-> "dict",
             d |-> [key \in Keys |->
                      IF doc.members[key] = JMissing THEN Absent
                      ELSE json_loads(doc.members[key])]]

\* Rule.dumps
dumps(self) == json_dumps(to_dict(self))

\* Rule.loads(string) with ensure_list=False: a Rule, or a list of Rules when the
\* document is an array
loads(string, version) ==
    LET rule == json_loads(string) IN
    IF rule.k = "list" THEN
        LET kids == [i \in DOMAIN rule.items |-> Rule(rule.items[i], version)]
            bad == {i \in DOMAIN rule.items : ~kids[i].ok}
        IN  IF bad # {} THEN kids[SetMin(bad)]
            ELSE [ok |-> TRUE, list |-> [i \in DOMAIN rule.items |-> kids[i].v]]
    ELSE Rule(rule, version)

-----------------------------------------------------------------------------
(* text: a string's characters, for what the code does with string contents *)

\* the one-character string of the code point U+00B2, superscript two
SuperscriptTwo == "U+00B2"

Chars(s) ==
    CASE s = "" -> <<>>
      [] s = SuperscriptTwo -> <<SuperscriptTwo>>
      [] s = "00" -> <<"0", "0">>
      [] s = "false" -> <<"f", "a", "l", "s", "e">>
      [] s = "True" -> <<"T", "r", "u", "e">>
      [] s = "yes" -> <<"y", "e", "s">>
      [] s = "0" -> <<"0">>
      [] s = "1" -> <<"1">>
      [] s = "2" -> <<"2">>
      [] s = "4" -> <<"4">>
      [] s = "-1" -> <<"-", "1">>
      [] s = "10" -> <<"1", "0">>
      [] s = "0.5" -> <<"0", ".", "5">>
      [] s = "10.25" -> <<"1", "0", ".", "2", "5">>
      [] s = "true" -> <<"t", "r", "u", "e">>
      [] s = "he" -> <<"h", "e">>
      [] s = "henry" -> <<"h", "e", "n", "r", "y">>
      [] s = "hello" -> <<"h", "e", "l", "l", "o">>
      [] s = "1111-1111-1111" ->
            <<"1", "1", "1", "1", "-", "1", "1", "1", "1", "-", "1", "1", "1", "1">>
      [] s = "1111-1111-1112" ->
            <<"1", "1", "1", "1", "-", "1", "1", "1", "1", "-", "1", "1", "1", "2">>
      [] s = "111111111111" ->
            <<"1", "1", "1", "1", "1", "1", "1", "1", "1", "1", "1", "1">>
      [] s = "abcd-1234-de56" ->
            <<"a", "b", "c", "d", "-", "1", "2", "3", "4", "-", "d", "e", "5", "6">>
      [] s = "/^.{4}-.{4}-.{4}$/" ->
            <<"/", "^", ".", "{", "4", "}", "-", ".", "{", "4", "}", "-",
              ".", "{", "4", "}", "$", "/">>

\* the strings whose characters are listed
Strings ==
    {"", "0", "1", "2", "4", "-1", "10", "0.5", "10.25", "true", "he", "henry", "hello",
     "1111-1111-1111", "1111-1111-1112", "111111111111", "abcd-1234-de56",
     "/^.{4}-.{4}-.{4}$/", "00", "false", "True", "yes", SuperscriptTwo}
\* the string made of the characters
Text(cs) == CHOOSE s \in Strings : Chars(s) = cs

\* ord(c), for the characters above
Alphabet ==
    <<"$", "-", ".", "/", "0", "1", "2", "3", "4", "5", "6", "7", "8", "9", "T", "^",
      "a", "b", "c", "d", "e", "f", "h", "l", "n", "o", "r", "s", "t", "u", "y", "{", "}",
      SuperscriptTwo>>
Ord(c) == CHOOSE i \in DOMAIN Alphabet : Alphabet[i] = c

Digits == {"0", "1", "2", "3", "4", "5", "6", "7", "8", "9"}
DigitValue(c) == Ord(c) - Ord("0")

\* str.isdigit(): true of the decimal digits and of the other characters with
\* the Unicode digit property, such as the superscripts
isdigit(cs) == cs # <<>> /\ \A i \in DOMAIN cs : cs[i] \in Digits \cup {SuperscriptTwo}
\* the texts of decimal digits, which int() reads
isdecimal(cs) == cs # <<>> /\ \A i \in DOMAIN cs : cs[i] \in Digits

\* the number written by a sequence of digits
RECURSIVE DigitsValue(_)
DigitsValue(cs) ==
    IF cs = <<>> THEN 0
    ELSE 10 * DigitsValue(SubSeq(cs, 1, Len(cs) - 1)) + DigitValue(cs[Len(cs)])

Unsigned(cs) == IF cs # <<>> /\ cs[1] \in {"-", "+"} THEN Tail(cs) ELSE cs
Sign(cs) == IF cs # <<>> /\ cs[1] = "-" THEN 0 - 1 ELSE 1

\* str < str
RECURSIVE StrLess(_, _)
StrLess(a, b) ==
    IF b = <<>> THEN FALSE
    ELSE IF a = <<>> THEN TRUE
    ELSE IF a[1] # b[1] THEN Ord(a[1]) < Ord(b[1])
    ELSE StrLess(Tail(a), Tail(b))

startswith(cs, prefix) ==
    Len(prefix) <= Len(cs) /\ SubSeq(cs, 1, Len(prefix)) = prefix
endswith(cs, suffix) ==
    Len(suffix) <= Len(cs) /\ SubSeq(cs, Len(cs) - Len(suffix) + 1, Len(cs)) = suffix
\* sub in cs, for strings
substring(sub, cs) ==
    \E i \in 0..(Len(cs) - Len(sub)) : SubSeq(cs, i + 1, i + Len(sub)) = sub

\* re.compile, for patterns made of ^, $, ., literal characters and {n} with one
\* digit: the sequence of one-character matchers, "any" for the dot
RECURSIVE re_compile(_)
re_compile(cs) ==
    IF cs = <<>> THEN <<>>
    ELSE LET atom == IF cs[1] = "." THEN "any" ELSE cs[1]
             counted == Len(cs) >= 4 /\ cs[2] = "{" /\ cs[3] \in Digits /\ cs[4] = "}"
             times == IF counted THEN DigitValue(cs[3]) ELSE 1
             rest == IF counted THEN SubSeq(cs, 5, Len(cs)) ELSE Tail(cs)
         IN  [i \in 1..times |-> atom] \o re_compile(rest)

\* pattern.match(string): a match starting at the first character
RECURSIVE re_match(_, _, _)
re_match(pattern, cs, atStart) ==
    IF pattern = <<>> THEN TRUE
    ELSE IF pattern[1] = "^" THEN atStart /\ re_match(Tail(pattern), cs, atStart)
    ELSE IF pattern[1] = "$" THEN cs = <<>> /\ re_match(Tail(pattern), cs, FALSE)
    ELSE /\ cs # <<>>
         /\ pattern[1] = "any" \/ pattern[1] = cs[1]
         /\ re_match(Tail(pattern), Tail(cs), FALSE)

-----------------------------------------------------------------------------
(* filters.py: the filter classes and their descriptors *)

AllOperators == DOMAIN Operators

FilterClasses ==
    {"BooleanFilter", "StringFilter", "IntegerFilter", "DoubleFilter",
     "DateFilter", "TimeFilter", "DateTimeFilter"}

\* the class attribute TYPE
TYPE(cls) ==
    CASE cls = "BooleanFilter" -> "BOOLEAN"
      [] cls = "StringFilter" -> "STRING"
      [] cls = "IntegerFilter" -> "INTEGER"
      [] cls = "DoubleFilter" -> "DOUBLE"
      [] cls = "DateFilter" -> "DATE"
      [] cls = "TimeFilter" -> "TIME"
      [] cls = "DateTimeFilter" -> "DATETIME"

\* the class attribute OPERATORS
OPERATORS(cls) ==
    CASE cls = "BooleanFilter" -> {"EQUAL", "NOT_EQUAL", "IS_NULL", "IS_NOT_NULL"}
      [] cls = "StringFilter" ->
            unary_comparisons \cup binary_comparisons \cup ternary_comparisons
                \cup collection_comparisons \cup string_comparisons
      [] OTHER -> unary_comparisons \cup binary_comparisons \cup ternary_comparisons

\* the validate_* methods dir(self) finds on an instance of the class
validation_functions(cls) ==
    CASE cls = "StringFilter" -> {"validate_format"}
      [] cls \in {"IntegerFilter", "DoubleFilter"} ->
            {"validate_min", "validate_max", "validate_step"}
      [] OTHER -> {}

ValidationKeys == {"min", "max", "step", "format"}
\* dict(validation or {}), read with .get
Validation(d) == [key \in ValidationKeys |-> IF key \in DOMAIN d THEN d[key] ELSE None]

\* TypedFilter.__init__ and Filter.__init__ for the keyword arguments id,
\* operators and validation: id is None or a string, validation a record of the
\* declared rules, operators is NotGiven or Given(a set of operator values);
\* the type keyword is overwritten with the class's TYPE
NotGiven == [given |-> FALSE]
Given(values) == [given |-> TRUE, values |-> values]

FilterInit(cls, id, operators, validation) ==
    LET given == IF operators.given THEN operators.values
                 ELSE {Operators[op] : op \in OPERATORS(cls)}
        members == {op \in AllOperators : Operators[op] \in given}
    IN  IF \E value \in given : \A op \in AllOperators : Operators[op] # value
        THEN Raise("ValueError")
        ELSE Ok([cls |-> cls, id |-> id, type |-> TYPE(cls), operators |-> members,
                 validation |-> Validation(validation), func |-> None])

\* a decorator that leaves a filter already registered under the id in place
FilterCall_first_wins(reg, self, func) ==
    LET id == IF Truthy(self.id) THEN self.id.s ELSE func
    IN  IF reg[id].cls # "none" THEN reg
        ELSE [reg EXCEPT ![id] = [self EXCEPT !.func = func, !.id = Str(id)]]

\* Filter.__call__(func): the decorator binds the accessor, defaults the id to
\* the accessor's name and stores the descriptor in the registry
FilterCall(reg, self, func) ==
    LET id == IF Truthy(self.id) THEN self.id.s ELSE func
    IN  [reg EXCEPT ![id] = [self EXCEPT !.func = func, !.id = Str(id)]]

-----------------------------------------------------------------------------
(* Python's ordering, and the conversions of filters.py:257-265.  Numbers are
   counted in thousandths; a float of the model is one whose decimal text is
   its exact value *)

\* Python 2 orders objects of different types: None first, then numbers, then
\* by type name
TypeRank(x) ==
    CASE x.k = "none" -> 0
      [] x.k \in {"bool", "num"} -> 1
      [] x.k = "dict" -> 2
      [] x.k = "list" -> 3
      [] x.k = "str" -> 4

\* a < b; lists are ordered by their first differing items, then by length
RECURSIVE PyLess(_, _, _)
PyLess(a, b, version) ==
    IF IsNumber(a) /\ IsNumber(b) THEN Ok(NumOf(a) < NumOf(b))
    ELSE IF a.k = "str" /\ b.k = "str" THEN Ok(StrLess(Chars(a.s), Chars(b.s)))
    ELSE IF a.k = "list" /\ b.k = "list" THEN
        LET differ == {i \in DOMAIN a.items \cap DOMAIN b.items : ~PyEq(a.items[i], b.items[i])}
        IN  IF differ = {} THEN Ok(Len(a.items) < Len(b.items))
            ELSE PyLess(a.items[SetMin(differ)], b.items[SetMin(differ)], version)
    ELSE IF version = 3 THEN Raise("TypeError")
    ELSE Ok(TypeRank(a) < TypeRank(b))

\* a `not` that leaves its operand as it is
PyNot_kept(outcome) == outcome

\* not x, over outcomes: an operand that raises is raised
PyNot(outcome) == IF outcome.ok THEN Ok(~outcome.v) ELSE outcome

\* the decimal digits of a natural number
RECURSIVE NatChars(_)
NatChars(n) ==
    IF n < 10 THEN <<Alphabet[Ord("0") + n]>>
    ELSE NatChars(n \div 10) \o <<Alphabet[Ord("0") + (n % 10)]>>

\* str(x)
PyStr(x) ==
    CASE x.k = "str" -> x.s
      [] x.k = "num" /\ x.m % 1000 = 0 /\ x.m >= 0 -> Text(NatChars(x.m \div 1000))
      [] x.k = "num" /\ x.m % 1000 = 0 /\ x.m < 0 ->
            Text(<<"-">> \o NatChars((0 - x.m) \div 1000))

\* int(x)
PyInt(x) ==
    CASE x.k = "str" ->
            LET cs == Chars(x.s) IN
            IF isdecimal(Unsigned(cs)) THEN Ok(Num(Sign(cs) * DigitsValue(Unsigned(cs))))
            ELSE Raise("ValueError")
      [] x.k = "num" ->
            Ok(Num(IF x.m >= 0 THEN x.m \div 1000 ELSE 0 - ((0 - x.m) \div 1000)))
      [] x.k = "bool" -> Ok(Num(IF x.b THEN 1 ELSE 0))
      [] x.k \in {"list", "dict"} -> Raise("TypeError")

\* the position of the decimal point, 0 when there is none
PointAt(cs) == IF \E i \in DOMAIN cs : cs[i] = "." THEN CHOOSE i \in DOMAIN cs : cs[i] = "." ELSE 0

\* Decimal(x), for texts with at most three decimals
PyDecimal(x) ==
    CASE x.k = "str" ->
            LET cs == Unsigned(Chars(x.s))
                dot == PointAt(cs)
                whole == IF dot = 0 THEN cs ELSE SubSeq(cs, 1, dot - 1)
                frac == IF dot = 0 THEN <<>> ELSE SubSeq(cs, dot + 1, Len(cs))
                scaled == frac \o [i \in 1..(3 - Len(frac)) |-> "0"]
            IN  IF /\ whole \o frac # <<>>
                   /\ \A i \in DOMAIN whole : whole[i] \in Digits
                   /\ \A i \in DOMAIN frac : frac[i] \in Digits
                   /\ Len(frac) <= 3
                THEN Ok(Milli(Sign(Chars(x.s)) * (1000 * DigitsValue(whole) + DigitsValue(scaled))))
                ELSE Raise("InvalidOperation")
      [] x.k = "num" -> Ok(x)
      [] x.k = "bool" -> Ok(Num(IF x.b THEN 1 ELSE 0))
      [] x.k = "none" -> Raise("InvalidOperation")

\* lambda x: bool(int(x) if x.isdigit() else (1 if x == 'true' else 0))
PyBoolean(x) ==
    IF x.k # "str" THEN Raise("AttributeError")
    ELSE IF isdigit(Chars(x.s)) THEN
        LET n == PyInt(x) IN IF n.ok THEN Ok(Bool(n.v.m # 0)) ELSE n
    ELSE Ok(Bool(x.s = "true"))

\* Filter._python_types[type](value)
python_types(type, value) ==
    CASE type = "STRING" -> Ok(Str(PyStr(value)))
      [] type = "INTEGER" -> PyInt(value)
      [] type = "DOUBLE" ->
            IF value.k \in {"str", "num", "bool"} THEN PyDecimal(value)
            ELSE IF value.k = "list" /\ Len(value.items) # 3 THEN Raise("ValueError")
            ELSE Raise("TypeError")
      [] type = "BOOLEAN" -> PyBoolean(value)
      [] type \in {"DATE", "TIME", "DATETIME"} /\ value.k = "str" -> Raise("TypeError")

\* Filter.python_value
python_value(self, filter_value) ==
    IF filter_value = None THEN Ok(None)
    ELSE python_types(self.type, filter_value)

-----------------------------------------------------------------------------
(* filters.py: field validation *)

\* IntegerFilter.validate_min: None when no min is declared
validate_min(self, value, version) ==
    LET min == self.validation["min"] IN
    IF min = None THEN Ok(None)
    ELSE LET less == PyLess(value, min, version) IN
         IF less.ok THEN Ok(Bool(~less.v)) ELSE less

\* IntegerFilter.validate_max
validate_max(self, value, version) ==
    LET max == self.validation["max"] IN
    IF max = None THEN Ok(None)
    ELSE LET less == PyLess(max, value, version) IN
         IF less.ok THEN Ok(Bool(~less.v)) ELSE less

\* a validate_step that accepts every value
validate_step_unchecked(self, value, version) == Ok(None)

\* IntegerFilter.validate_step: the remainder of Decimal(str(value)) by
\* Decimal(str(step)) is zero
validate_step(self, value, version) ==
    LET step == self.validation["step"] IN
    IF step = None THEN Ok(None)
    ELSE LET d == IF value.k \in {"num", "str"} THEN PyDecimal(value)
                  ELSE Raise("InvalidOperation")
         IN  IF ~d.ok THEN d
             ELSE IF step.m = 0 THEN Raise("InvalidOperation")
             ELSE Ok(Bool(d.v.m % (IF step.m < 0 THEN 0 - step.m ELSE step.m) = 0))

\* StringFilter.validation_format: the compiled pattern, None without a format
validation_format(self) ==
    LET fmt == self.validation["format"] IN
    IF fmt = None THEN None
    ELSE LET cs == Chars(fmt.s) IN
         IF startswith(cs, <<"/">>) /\ endswith(cs, <<"/">>)
         THEN [k |-> "pattern", p |-> re_compile(SubSeq(cs, 2, Len(cs) - 1))]
         ELSE [k |-> "pattern", p |-> re_compile(cs)]

\* a validate_format that accepts every value
validate_format_unchecked(self, value, version) == Ok(None)

\* StringFilter.validate_format
validate_format(self, value, version) ==
    IF validation_format(self) = None THEN Ok(None)
    ELSE IF value.k # "str" THEN Raise("TypeError")
    ELSE Ok(Bool(re_match(validation_format(self).p, Chars(value.s), TRUE)))

validate_function(name, self, value, version) ==
    CASE name = "validate_min" -> validate_min(self, value, version)
      [] name = "validate_max" -> validate_max(self, value, version)
      [] name = "validate_step" -> validate_step(self, value, version)
      [] name = "validate_format" -> validate_format(self, value, version)

\* the orders in which a frozenset of the validate_* methods can be iterated
ValidationOrders ==
    {<<"validate_format", "validate_min", "validate_max", "validate_step">>,
     <<"validate_format", "validate_min", "validate_step", "validate_max">>,
     <<"validate_format", "validate_max", "validate_min", "validate_step">>,
     <<"validate_format", "validate_max", "validate_step", "validate_min">>,
     <<"validate_format", "validate_step", "validate_min", "validate_max">>,
     <<"validate_format", "validate_step", "validate_max", "validate_min">>}

\* all(f(value) is not False for f in fs), fs in iteration order: stops at the
\* first False, and at the first f that raises
RECURSIVE all_not_False(_, _, _, _)
all_not_False(fs, self, value, version) ==
    IF fs = <<>> THEN Ok(TRUE)
    ELSE LET r == validate_function(Head(fs), self, value, version) IN
         IF ~r.ok THEN r
         ELSE IF r.v = Bool(FALSE) THEN Ok(FALSE)
         ELSE all_not_False(Tail(fs), self, value, version)

\* a validate that lets every value pass
validate_nothing(self, value, version, order) == Ok(TRUE)

\* Filter.validate
validate(self, value, version, order) ==
    LET in_class(name) == name \in validation_functions(self.cls) IN
    all_not_False(SelectSeq(order, in_class), self, value, version)

-----------------------------------------------------------------------------
(* filters.py: the operator handlers *)

\* the handlers each class body declares with @Operator.X.handles
declared_handlers(cls) ==
    CASE cls = "Filter" ->
            [op \in unary_comparisons \cup binary_comparisons \cup ternary_comparisons
                    \cup {"IN", "NOT_IN", "CONTAINS"} |-> "Filter"]
      [] cls = "StringFilter" ->
            [op \in string_comparisons \cup {"NOT_CONTAINS", "IS_EMPTY", "IS_NOT_EMPTY"}
                |-> "StringFilter"]
      [] OTHER -> <<>>

\* the classes in the order their bodies are executed
ClassOrder ==
    <<"Filter", "TypedFilter", "BooleanFilter", "StringFilter", "IntegerFilter",
      "DoubleFilter", "DateFilter", "TimeFilter", "DateTimeFilter">>

\* the base class of each class
bases(cls) ==
    CASE cls = "Filter" -> "ToDictMixin"
      [] cls = "TypedFilter" -> "Filter"
      [] cls = "DoubleFilter" -> "IntegerFilter"
      [] OTHER -> "TypedFilter"

\* FilterMeta.__new__ stores each declared handler in cls._operator_handlers;
\* no class but Filter assigns that attribute, so every class writes into
\* Filter's dict.  The dict after the first n classes: operator -> declaring class
RECURSIVE operator_handlers_after(_)
operator_handlers_after(n) ==
    IF n = 0 THEN <<>>
    ELSE declared_handlers(ClassOrder[n]) @@ operator_handlers_after(n - 1)

operator_handlers == operator_handlers_after(Len(ClassOrder))

\* Filter.handler_for_operator: cls._operator_handlers and Filter._operator_handlers
\* are the one dict
handler_for_operator(cls, operator) ==
    IF operator \in DOMAIN operator_handlers
    THEN Ok([op |-> operator, owner |-> operator_handlers[operator]])
    ELSE Raise("KeyError")

\* the number of operands after self each handler takes
Arity(op) ==
    CASE op \in {"IS_NULL", "IS_NOT_NULL", "IS_EMPTY", "IS_NOT_EMPTY"} -> 1
      [] op \in {"BETWEEN", "NOT_BETWEEN"} -> 3
      [] OTHER -> 2

\* `x or y`, `x and y` and `not x` over outcomes: an operand that raises is raised
Or(x, y) == IF ~x.ok THEN x ELSE IF x.v THEN x ELSE y
And(x, y) == IF ~x.ok THEN x ELSE IF ~x.v THEN x ELSE y

\* lop in rop
In(lop, rop) ==
    IF rop.k = "str"
    THEN IF lop.k = "str" THEN Ok(substring(Chars(lop.s), Chars(rop.s)))
         ELSE Raise("TypeError")
    ELSE IF rop.k = "list" THEN Ok(\E i \in DOMAIN rop.items : PyEq(lop, rop.items[i]))
    ELSE Raise("TypeError")

equal(lop, rop) == Ok(PyEq(lop, rop))
less(lop, rop, version) == PyLess(lop, rop, version)
less_or_equal(lop, rop, version) == Or(less(lop, rop, version), equal(lop, rop))

\* a greater that is the negation of less alone
greater_not_less(lop, rop, version) == PyNot(less(lop, rop, version))

greater(lop, rop, version) == PyNot(less_or_equal(lop, rop, version))

greater_or_equal(lop, rop, version) == Or(greater(lop, rop, version), equal(lop, rop))

\* a between that leaves out both end points
between_exclusive(op, minop, maxop, version) ==
    And(less(minop, op, version), less(op, maxop, version))

\* minop <= op <= maxop
between(op, minop, maxop, version) ==
    And(less_or_equal(minop, op, version), less_or_equal(op, maxop, version))

\* lop.startswith(rop): lop must have the method, rop be a string
begins_with(lop, rop) ==
    IF lop.k # "str" THEN Raise("AttributeError")
    ELSE IF rop.k # "str" THEN Raise("TypeError")
    ELSE Ok(startswith(Chars(lop.s), Chars(rop.s)))

\* lop.endswith(rop)
ends_with(lop, rop) ==
    IF lop.k # "str" THEN Raise("AttributeError")
    ELSE IF rop.k # "str" THEN Raise("TypeError")
    ELSE Ok(endswith(Chars(lop.s), Chars(rop.s)))

\* len(op) == 0
is_empty(op) ==
    CASE op.k = "str" -> Ok(Chars(op.s) = <<>>)
      [] op.k = "list" -> Ok(op.items = <<>>)
      [] op.k = "dict" -> Ok(KeysOf(op.d) = {})
      [] OTHER -> Raise("TypeError")

\* operator_handler(filter, *operands): TypeError when the count of operands is
\* not the handler's
call_handler(handler, operands, version) ==
    IF Len(operands) # Arity(handler.op) THEN Raise("TypeError")
    ELSE LET a == operands[1]
             b == operands[2]
             c == operands[3]
         IN CASE handler.op = "EQUAL" -> equal(a, b)
              [] handler.op = "NOT_EQUAL" -> PyNot(equal(a, b))
              [] handler.op = "IN" -> In(a, b)
              [] handler.op = "NOT_IN" -> PyNot(In(a, b))
              [] handler.op = "LESS" -> less(a, b, version)
              [] handler.op = "LESS_OR_EQUAL" -> less_or_equal(a, b, version)
              [] handler.op = "GREATER" -> greater(a, b, version)
              [] handler.op = "GREATER_OR_EQUAL" -> greater_or_equal(a, b, version)
              [] handler.op = "BETWEEN" -> between(a, b, c, version)
              [] handler.op = "NOT_BETWEEN" -> PyNot(between(a, b, c, version))
              [] handler.op = "CONTAINS" -> In(a, b)
              [] handler.op = "NOT_CONTAINS" -> PyNot(In(a, b))
              [] handler.op = "IS_NULL" -> Ok(a = None)
              [] handler.op = "IS_NOT_NULL" -> Ok(a # None)
              [] handler.op = "BEGINS_WITH" -> begins_with(a, b)
              [] handler.op = "NOT_BEGINS_WITH" -> PyNot(begins_with(a, b))
              [] handler.op = "ENDS_WITH" -> ends_with(a, b)
              [] handler.op = "NOT_ENDS_WITH" -> PyNot(ends_with(a, b))
              [] handler.op = "IS_EMPTY" -> is_empty(a)
              [] handler.op = "IS_NOT_EMPTY" -> PyNot(is_empty(a))

-----------------------------------------------------------------------------
(* evaluation: Filters.run_filter_for_rule and Rule.is_valid.  An evaluation
   yields its outcome and its trace, the steps taken in order, each with the
   node of the tree it was taken for (nodes are numbered in depth-first order
   from the root, 0).  filters is the host: its accessors' values, with the
   registry and the interpreter it runs on *)

Event(step, node) == [step |-> step, node |-> node]
Returns(v, trace) == [ok |-> TRUE, v |-> v, trace |-> trace]
Raises(e, trace) == [ok |-> FALSE, err |-> e, trace |-> trace]
After(trace, outcome) == [outcome EXCEPT !.trace = trace \o @]

NoFilter == [cls |-> "none"]

\* a lookup that falls back on the first registered filter
lookup_with_default(reg, id) ==
    IF id.k = "str" /\ id.s \in DOMAIN reg /\ reg[id.s] # NoFilter THEN Ok(reg[id.s])
    ELSE Ok(reg[CHOOSE i \in DOMAIN reg : reg[i] # NoFilter])

\* Filter._filter_registry[rule.id]
lookup(reg, id) ==
    IF id.k \in {"list", "dict"} THEN Raise("TypeError")
    ELSE IF id.k = "str" /\ id.s \in DOMAIN reg /\ reg[id.s] # NoFilter THEN Ok(reg[id.s])
    ELSE Raise("KeyError")

\* what the handler is called with: a list is spread into separate operands
operands_of(filter_operand, rule_operand) ==
    IF rule_operand.k = "list" THEN <<filter_operand>> \o rule_operand.items
    ELSE <<filter_operand, rule_operand>>

\* a run_filter_for_rule that converts the rule's value before it validates the
\* host's
run_filter_converting_first(filters, rule, node) ==
    LET filter == lookup(filters.registry, rule.id)
        t1 == <<Event("lookup", node)>>
    IN  IF ~filter.ok THEN Raises(filter.err, t1) ELSE
    LET filter_operand == filters.host[filter.v.func]
        rule_operand == python_value(filter.v, rule.value)
        t2 == t1 \o <<Event("func", node), Event("python_value", node)>>
    IN  IF ~rule_operand.ok THEN Raises(rule_operand.err, t2) ELSE
    LET t3 == t2 \o <<Event("validate", node)>>
        valid == validate(filter.v, filter_operand, filters.py, filters.order)
    IN  IF ~valid.ok THEN Raises(valid.err, t3)
        ELSE IF ~valid.v THEN Returns(FALSE, t3) ELSE
    LET operator_handler == handler_for_operator(filter.v.cls, rule.operator)
        t4 == t3 \o <<Event("handler_for_operator", node)>>
    IN  IF ~operator_handler.ok THEN Raises(operator_handler.err, t4) ELSE
    LET t5 == t4 \o <<Event("operator_handler", node)>>
        outcome == call_handler(operator_handler.v,
                                operands_of(filter_operand, rule_operand.v), filters.py)
    IN  IF outcome.ok THEN Returns(outcome.v, t5) ELSE Raises(outcome.err, t5)

\* a run_filter_for_rule that reads the host's own attribute of the rule's id
\* in place of the accessor bound to the filter
run_filter_on_own_attribute(filters, rule, node) ==
    LET filter == lookup(filters.registry, rule.id)
        t1 == <<Event("lookup", node)>>
    IN  IF ~filter.ok THEN Raises(filter.err, t1) ELSE
    LET filter_operand == filters.host[rule.id.s]
        t2 == t1 \o <<Event("func", node), Event("validate", node)>>
        valid == validate(filter.v, filter_operand, filters.py, filters.order)
    IN  IF ~valid.ok THEN Raises(valid.err, t2)
        ELSE IF ~valid.v THEN Returns(FALSE, t2) ELSE
    LET rule_operand == python_value(filter.v, rule.value)
        t3 == t2 \o <<Event("python_value", node)>>
    IN  IF ~rule_operand.ok THEN Raises(rule_operand.err, t3) ELSE
    LET operator_handler == handler_for_operator(filter.v.cls, rule.operator)
        t4 == t3 \o <<Event("handler_for_operator", node)>>
    IN  IF ~operator_handler.ok THEN Raises(operator_handler.err, t4) ELSE
    LET t5 == t4 \o <<Event("operator_handler", node)>>
        outcome == call_handler(operator_handler.v,
                                operands_of(filter_operand, rule_operand.v), filters.py)
    IN  IF outcome.ok THEN Returns(outcome.v, t5) ELSE Raises(outcome.err, t5)

\* Filters.run_filter_for_rule
run_filter_for_rule(filters, rule, node) ==
    LET filter == lookup(filters.registry, rule.id)
        t1 == <<Event("lookup", node)>>
    IN  IF ~filter.ok THEN Raises(filter.err, t1) ELSE
    LET filter_operand == filters.host[filter.v.func]
        t2 == t1 \o <<Event("func", node), Event("validate", node)>>
        valid == validate(filter.v, filter_operand, filters.py, filters.order)
    IN  IF ~valid.ok THEN Raises(valid.err, t2)
        ELSE IF ~valid.v THEN Returns(FALSE, t2) ELSE
    LET rule_operand == python_value(filter.v, rule.value)
        t3 == t2 \o <<Event("python_value", node)>>
    IN  IF ~rule_operand.ok THEN Raises(rule_operand.err, t3) ELSE
    LET operator_handler == handler_for_operator(filter.v.cls, rule.operator)
        t4 == t3 \o <<Event("handler_for_operator", node)>>
    IN  IF ~operator_handler.ok THEN Raises(operator_handler.err, t4) ELSE
    LET t5 == t4 \o <<Event("operator_handler", node)>>
        outcome == call_handler(operator_handler.v,
                                operands_of(filter_operand, rule_operand.v), filters.py)
    IN  IF outcome.ok THEN Returns(outcome.v, t5) ELSE Raises(outcome.err, t5)

\* the number of nodes of a rule, and of the first i rules of a list
RECURSIVE Size(_), SizeOfFirst(_, _)
Size(rule) == IF rule.is_group THEN 1 + SizeOfFirst(rule.rules, Len(rule.rules)) ELSE 1
SizeOfFirst(rules, i) == IF i = 0 THEN 0 ELSE SizeOfFirst(rules, i - 1) + Size(rules[i])

\* the node of the i-th child of the group at node
ChildNode(rules, i, node) == node + 1 + SizeOfFirst(rules, i - 1)

RECURSIVE is_valid(_, _, _)

\* a python_conditions that maps both conditions to all
python_conditions_all(condition) == "all"

\* a python_conditions with the two builtins exchanged
python_conditions_exchanged(condition) == IF condition = "AND" THEN "any" ELSE "all"

\* Rule.python_conditions
python_conditions(condition) == IF condition = "AND" THEN "all" ELSE "any"

\* all and any over a list built in full before it is looked at
RECURSIVE over_list(_, _, _, _, _)
over_list(fn, rules, i, filters, node) ==
    IF i > Len(rules) THEN Returns(fn = "all", <<>>)
    ELSE LET item == is_valid(rules[i], filters, ChildNode(rules, i, node))
             rest == over_list(fn, rules, i + 1, filters, node)
         IN  IF ~item.ok THEN item
             ELSE IF ~rest.ok THEN After(item.trace, rest)
             ELSE IF item.v = (fn = "any") THEN Returns(item.v, item.trace \o rest.trace)
             ELSE After(item.trace, rest)

\* all and any over the children taken from the last to the first
RECURSIVE over_reversed(_, _, _, _, _)
over_reversed(fn, rules, i, filters, node) ==
    IF i > Len(rules) THEN Returns(fn = "all", <<>>)
    ELSE LET at == Len(rules) + 1 - i
             item == is_valid(rules[at], filters, ChildNode(rules, at, node))
         IN  IF ~item.ok THEN item
             ELSE IF item.v = (fn = "any") THEN item
             ELSE After(item.trace, over_reversed(fn, rules, i + 1, filters, node))

\* all and any that take a child that raises for a false one
RECURSIVE over_swallowing(_, _, _, _, _)
over_swallowing(fn, rules, i, filters, node) ==
    IF i > Len(rules) THEN Returns(fn = "all", <<>>)
    ELSE LET item == is_valid(rules[i], filters, ChildNode(rules, i, node)) IN
         IF ~item.ok THEN
            IF fn = "all" THEN Returns(FALSE, item.trace)
            ELSE After(item.trace, over_swallowing(fn, rules, i + 1, filters, node))
         ELSE IF item.v = (fn = "any") THEN item
         ELSE After(item.trace, over_swallowing(fn, rules, i + 1, filters, node))

\* all and any that evaluate a child a second time before they go on to the
\* next one
RECURSIVE over_twice(_, _, _, _, _)
over_twice(fn, rules, i, filters, node) ==
    IF i > Len(rules) THEN Returns(fn = "all", <<>>)
    ELSE LET item == is_valid(rules[i], filters, ChildNode(rules, i, node)) IN
         IF ~item.ok THEN item
         ELSE IF item.v = (fn = "any") THEN item
         ELSE After(item.trace \o item.trace, over_twice(fn, rules, i + 1, filters, node))

\* all(...) and any(...) over the generator of the children's is_valid, from the
\* i-th child on: a child is evaluated when the builtin asks for the next item;
\* any stops at the first true item, all at the first false one, and an item
\* that raises ends the call
RECURSIVE over_generator(_, _, _, _, _)
over_generator(fn, rules, i, filters, node) ==
    IF i > Len(rules) THEN Returns(fn = "all", <<>>)
    ELSE LET item == is_valid(rules[i], filters, ChildNode(rules, i, node)) IN
         IF ~item.ok THEN item
         ELSE IF item.v = (fn = "any") THEN item
         ELSE After(item.trace, over_generator(fn, rules, i + 1, filters, node))

\* Rule.is_valid
is_valid(self, filters, node) ==
    After(<<Event("is_valid", node)>>,
          IF self.is_group
          THEN over_generator(python_conditions(self.condition), self.rules, 1, filters, node)
          ELSE IF self.is_empty THEN Returns(TRUE, <<>>)
          ELSE run_filter_for_rule(filters, self, node))

-----------------------------------------------------------------------------
(* the raw objects handed to Rule(...) *)

\* largest number of nodes (groups and leaves) of a generated rule tree
MaxNodes == 3

\* the leaf of tests/test_rules.py:316-326
HenryLeaf ==
    Dict([id |-> Str("name"), field |-> Str("name"), type |-> Str("string"),
          input |-> Str("text"), operator |-> Str("equal"), value |-> Str("henry")])

EmptyMarker == Dict([empty |-> Bool(TRUE)])

\* the raw object of a group
RawGroup(condition, rules) == Dict([condition |-> Str(condition), rules |-> List(rules)])

\* the shapes of the trees with exactly n nodes: an atom, named by its place in
\* a list of raw objects, or a group with a condition in conds over such shapes
RECURSIVE TreeShapes(_, _, _), ForestShapes(_, _, _)
TreeShapes(atoms, conds, n) ==
    (IF n = 1 THEN {[atom |-> a] : a \in atoms} ELSE {})
    \cup {[cond |-> c, kids |-> f] : c \in conds, f \in ForestShapes(atoms, conds, n - 1)}
ForestShapes(atoms, conds, m) ==
    IF m = 0 THEN {<<>>}
    ELSE UNION {{<<t>> \o f : t \in TreeShapes(atoms, conds, n),
                              f \in ForestShapes(atoms, conds, m - n)} : n \in 1..m}

\* the raw object of a shape: the dict with `condition` and `rules` for a group
RECURSIVE RawTree(_, _)
RawTree(shape, atoms) ==
    IF "atom" \in DOMAIN shape THEN atoms[shape.atom]
    ELSE Dict([condition |-> Str(shape.cond),
               rules |-> List([i \in DOMAIN shape.kids |-> RawTree(shape.kids[i], atoms)])])

\* objects that are no dict
NonDicts == {None, Bool(TRUE), Num(1), Str("wat"), List(<<>>), List(<<HenryLeaf>>)}

\* every combination of present and missing keys, of valid and invalid field contents
OptEmpty == {Absent, Bool(TRUE), Bool(FALSE)}
OptCondition == {Absent, Str("AND"), Str("OR"), Str("fake")}
OptRules == {Absent, Str("hu"), List(<<>>), List(<<HenryLeaf>>), List(<<Str("wat")>>)}
OptInput == {Absent, Str("text"), Str("fake_input")}
OptOperator == {Absent, Str("equal"), Str("fake_operator")}
OptType == {Absent, Str("string"), Str("fake_type")}

ShapeInputs ==
    {[k |-> "dict",
      d |-> [key \in Keys |->
               CASE key = "empty" -> e
                 [] key = "condition" -> c
                 [] key = "rules" -> r
                 [] key = "id" -> i
                 [] key = "field" -> f
                 [] key = "input" -> inp
                 [] key = "operator" -> op
                 [] key = "type" -> ty
                 [] key = "value" -> v
                 [] key = "valid" -> x]] :
       e \in OptEmpty, c \in OptCondition, r \in OptRules,
       i \in {Absent, Str("name")}, f \in {Absent, Str("name")},
       inp \in OptInput, op \in OptOperator, ty \in OptType,
       v \in {Absent, Str("henry")}, x \in {Absent, Bool(TRUE)}}

\* nested groups over valid and invalid children
TreeAtoms ==
    <<Str("wat"), Dict(<<>>), HenryLeaf, EmptyMarker,
     Dict([id |-> Str("id"), field |-> Str("id"), type |-> Str("integer"),
           input |-> Str("number"), operator |-> Str("less"), value |-> Num(2),
           valid |-> Bool(TRUE)]),
     Dict([id |-> Str("name"), field |-> Str("name"), type |-> Str("string"),
           input |-> Str("text"), operator |-> Str("fake_operator"), value |-> Str("henry")]),
     Dict([condition |-> Str("AND"), rules |-> Str("hu")])>>

TreeInputs ==
    UNION {TreeShapes(DOMAIN TreeAtoms, {"AND", "OR", "fake"}, n) : n \in 1..MaxNodes}

\* well-formed leaves over every member of the three enumerations
LeafValues == {None, Bool(TRUE), Num(1), Str("henry"), List(<<Str("1"), Str("2")>>)}

LeafInputs ==
    {Dict([id |-> i, field |-> Str("name"), type |-> Str(Types[ty]),
           input |-> Str(Inputs[inp]), operator |-> Str(Operators[op]), value |-> v]) :
       i \in {Str("name"), Num(7)}, ty \in DOMAIN Types, inp \in DOMAIN Inputs,
       op \in DOMAIN Operators, v \in LeafValues}

-----------------------------------------------------------------------------
(* state *)

FilterIds == {"name", "id", "category", "in_stock", "price", "toxicity"}

NotRun == [ok |-> FALSE, err |-> "not run"]
Nothing == [k |-> "nothing"]
NoDoc == [j |-> "nothing"]
NoCall == [fn |-> "nothing"]

Init ==
    /\ py \in PythonVersions
    /\ registry = [id \in FilterIds |-> NoFilter]
    /\ input = Nothing
    /\ parsed = NotRun
    /\ dumped = NoDoc
    /\ reloaded = NotRun
    /\ host = Nothing
    /\ result = NotRun
    /\ call = NoCall

\* Rule(x)
Construct(x) ==
    /\ input = Nothing
    /\ input' = x
    /\ parsed' = Rule(x, py)
    /\ dumped' = NoDoc
    /\ reloaded' = NotRun
    /\ host' = Nothing
    /\ result' = NotRun
    /\ UNCHANGED <<py, registry, call>>

\* rule.dumps()
Dumps ==
    /\ parsed.ok
    /\ dumped' = dumps(parsed.v)
    /\ reloaded' = NotRun
    /\ UNCHANGED <<py, registry, input, parsed, host, result, call>>

\* Rule.loads(string)
Loads ==
    /\ dumped # NoDoc
    /\ reloaded' = loads(dumped, py)
    /\ UNCHANGED <<py, registry, input, parsed, dumped, host, result, call>>

\* the decorators of SomeFilters (tests/test_rules.py) and of the filter with a
\* max (tests/test_querybuilder.py), in the order they are applied
Decorators ==
    <<[cls |-> "StringFilter", id |-> Str("name"), operators |-> NotGiven,
       validation |-> <<>>, func |-> "name"],
      [cls |-> "StringFilter", id |-> Str("id"), operators |-> Given({"equal", "not_equal"}),
       validation |-> [format |-> Str("/^.{4}-.{4}-.{4}$/")], func |-> "id"],
      [cls |-> "IntegerFilter", id |-> Str("category"),
       operators |-> Given({"equal", "not_equal", "in", "not_in", "is_null", "is_not_null"}),
       validation |-> <<>>, func |-> "category"],
      [cls |-> "BooleanFilter", id |-> Str("in_stock"), operators |-> Given({"equal"}),
       validation |-> <<>>, func |-> "in_stock"],
      [cls |-> "DoubleFilter", id |-> Str("price"), operators |-> NotGiven,
       validation |-> [min |-> Num(0), step |-> Milli(10)], func |-> "price"],
      [cls |-> "DoubleFilter", id |-> None, operators |-> NotGiven,
       validation |-> [min |-> Num(0), max |-> Num(1), step |-> Milli(10)],
       func |-> "toxicity"]>>

\* the registry after the first n decorators
RECURSIVE Decorated(_)
Decorated(n) ==
    IF n = 0 THEN [id \in FilterIds |-> NoFilter]
    ELSE LET d == Decorators[n] IN
         FilterCall(Decorated(n - 1), FilterInit(d.cls, d.id, d.operators, d.validation).v,
                    d.func)

\* the items the accessors read: the item of the tests, and the items that
\* differ from it in one field
Item == [name |-> Str("hello"), id |-> Str("abcd-1234-de56"), category |-> Num(1),
         in_stock |-> Bool(TRUE), price |-> Num(10), toxicity |-> Milli(500)]
Hosts ==
    {Item}
    \cup {[Item EXCEPT !.name = v] : v \in {Str("henry"), None}}
    \cup {[Item EXCEPT !.id = v] : v \in {Str("1111-1111-1111"), Str("111111111111")}}
    \cup {[Item EXCEPT !.category = v] : v \in {Num(4), None}}
    \cup {[Item EXCEPT !.in_stock = v] : v \in {Bool(FALSE)}}
    \cup {[Item EXCEPT !.price = v] : v \in {Milli(10250), Milli(10249), Num(0 - 1), None}}
    \cup {[Item EXCEPT !.toxicity = v] : v \in {Milli(1500), Milli(125)}}

\* the items the trees are evaluated on: those that decide the trees' leaves
TreeHosts ==
    {Item, [Item EXCEPT !.category = Num(4)], [Item EXCEPT !.category = None],
     [Item EXCEPT !.price = Milli(10250)], [Item EXCEPT !.price = Milli(10249)]}

\* the iteration order of a filter's validation functions shows only when one of
\* them raises: the orders to consider for an item
OrdersFor(reg, item, version) ==
    IF \E id \in DOMAIN reg : /\ reg[id] # NoFilter
                              /\ \E name \in validation_functions(reg[id].cls) :
                                    ~validate_function(name, reg[id], item[reg[id].func],
                                                       version).ok
    THEN ValidationOrders
    ELSE {CHOOSE order \in ValidationOrders : TRUE}

\* the registry the test modules leave, which no evaluation changes
SomeFilters == Decorated(Len(Decorators))
HostOrders ==
    [version \in PythonVersions |-> [item \in Hosts |-> OrdersFor(SomeFilters, item, version)]]

\* the rules evaluated: every operator on every filter and on an id that is not
\* registered, and the trees over four nodes
MaxRuleNodes == 4

RuleLeaf(id, type, operator, value) ==
    Dict([id |-> Str(id), field |-> Str(id), type |-> Str(type), input |-> Str("text"),
          operator |-> Str(operator), value |-> value])

EvalLeaves ==
    {RuleLeaf(id, type, Operators[op], v) :
       id \in FilterIds \cup {"unknown"}, type \in {"string", "integer"},
       op \in AllOperators,
       v \in {None, Str("1"), Str("10.25"), Str("henry"), Str("1111-1111-1111")}}

\* leaves whose value is an array of literals
ArrayLeaves ==
    {RuleLeaf(id, type, Operators[op], List(v)) :
       id \in {"category", "price", "in_stock"}, type \in {"integer", "double"},
       op \in {"BETWEEN", "NOT_BETWEEN", "IN", "NOT_IN"},
       v \in {<<Str("1"), Str("4")>>, <<Num(1), Num(4)>>, <<Str("0"), Str("10.25")>>,
              <<Num(1)>>, <<>>}}

\* leaves that raise, for an unknown id, in the conversion of the value and in
\* the handler, next to a leaf that is true or false and the Empty rule
ErrorAtoms ==
    {RuleLeaf("unknown", "string", "equal", Str("1")),
     RuleLeaf("category", "integer", "equal", Str("henry")),
     RuleLeaf("category", "integer", "is_null", None),
     RuleLeaf("category", "integer", "equal", Str("1")),
     EmptyMarker}

\* the groups of three of them, two in a group of their own
ErrorTrees ==
    {RawGroup(c1, <<a, RawGroup(c2, <<b, c>>)>>) :
        c1 \in {"AND", "OR"}, c2 \in {"AND", "OR"},
        a \in ErrorAtoms, b \in ErrorAtoms, c \in ErrorAtoms}
    \cup {RawGroup(c1, <<RawGroup(c2, <<a, b>>), c>>) :
        c1 \in {"AND", "OR"}, c2 \in {"AND", "OR"},
        a \in ErrorAtoms, b \in ErrorAtoms, c \in ErrorAtoms}

EvalAtoms ==
    <<RuleLeaf("category", "integer", "equal", Str("1")),
     RuleLeaf("price", "double", "less", Str("10.25")),
     RuleLeaf("unknown", "string", "equal", Str("1")),
     EmptyMarker>>

EvalTrees == UNION {TreeShapes(DOMAIN EvalAtoms, {"AND", "OR"}, n) : n \in 2..MaxRuleNodes}

InitEval ==
    /\ py \in PythonVersions
    /\ registry = SomeFilters
    /\ input = Nothing
    /\ parsed = NotRun
    /\ dumped = NoDoc
    /\ reloaded = NotRun
    /\ host = Nothing
    /\ result = NotRun
    /\ call = NoCall

\* an instance of a Filters class around an item, with what its accessors and
\* filters run on
Filters(item, reg, version, order) ==
    [host |-> item, registry |-> reg, py |-> version, order |-> order]

\* an evaluation that takes the filters it looked up out of the registry
IsValid_consuming(item, order) ==
    /\ parsed.ok
    /\ host = Nothing
    /\ host' = [item |-> item, order |-> order]
    /\ result' = is_valid(parsed.v, Filters(item, registry, py, order), 0)
    /\ registry' = [id \in DOMAIN registry |->
                        IF \E i \in DOMAIN result'.trace : result'.trace[i].step = "func"
                        THEN NoFilter ELSE registry[id]]
    /\ UNCHANGED <<py, input, parsed, dumped, reloaded, call>>

\* rule.is_valid(SomeFilters(item))
IsValid(item, order) ==
    /\ parsed.ok
    /\ host = Nothing
    /\ host' = [item |-> item, order |-> order]
    /\ result' = is_valid(parsed.v, Filters(item, registry, py, order), 0)
    /\ UNCHANGED <<py, registry, input, parsed, dumped, reloaded, call>>

NextEval ==
    \/ input = Nothing /\ \E x \in EvalLeaves : Construct(x)
    \/ input = Nothing /\ \E x \in EvalTrees : Construct(RawTree(x, EvalAtoms))
    \/ input = Nothing /\ \E x \in ArrayLeaves : Construct(x)
    \/ input = Nothing /\ \E x \in ErrorTrees : Construct(x)
    \/ /\ parsed.ok /\ ~parsed.v.is_group
       /\ \E item \in Hosts : \E order \in HostOrders[py][item] : IsValid(item, order)
    \/ /\ parsed.ok /\ parsed.v.is_group
       /\ \E item \in TreeHosts : \E order \in HostOrders[py][item] : IsValid(item, order)

SpecEval == InitEval /\ [][NextEval]_vars

NextParse ==
    \/ input = Nothing /\ \E x \in NonDicts : Construct(x)
    \/ input = Nothing /\ \E x \in ShapeInputs : Construct(x)
    \/ input = Nothing /\ \E x \in TreeInputs : Construct(RawTree(x, TreeAtoms))
    \/ input = Nothing /\ \E x \in LeafInputs : Construct(x)
    \/ Dumps
    \/ Loads

SpecParse == Init /\ [][NextParse]_vars

-----------------------------------------------------------------------------
(* the claims about construction and serialization, checked under SpecParse *)

Range(f) == {f[x] : x \in DOMAIN f}

Falsy == {Absent, None, Bool(FALSE), Num(0), Str(""), List(<<>>), Dict(<<>>)}
HasTruthyEmpty(x) == x.d["empty"] \notin Falsy
HasAll(x, fields) == \A key \in fields : x.d[key] # Absent
SixLeafFields == {"id", "field", "input", "operator", "type", "value"}
TwoGroupFields == {"condition", "rules"}
IsOneOf(x, values) == x.k = "str" /\ x.s \in values

\* the objects the wire format rejects
RECURSIVE Malformed(_)
Malformed(x) ==
    IF x.k # "dict" THEN TRUE
    ELSE IF HasTruthyEmpty(x) THEN FALSE
    ELSE IF HasAll(x, TwoGroupFields) THEN
        \/ ~IsOneOf(x.d["condition"], {"AND", "OR"})
        \/ x.d["rules"].k # "list"
        \/ \E i \in DOMAIN x.d["rules"].items : Malformed(x.d["rules"].items[i])
    ELSE IF HasAll(x, SixLeafFields) THEN
        \/ ~IsOneOf(x.d["input"], Range(Inputs))
        \/ ~IsOneOf(x.d["operator"], Range(Operators))
        \/ ~IsOneOf(x.d["type"], Range(Types))
    ELSE TRUE

\* the object without its keys outside the field-sets, at every level
RECURSIVE StripExtra(_)
StripExtra(x) ==
    IF x.k = "dict" THEN
        [k |-> "dict",
         d |-> [key \in Keys |->
                  IF key = "valid" THEN Absent
                  ELSE IF key = "rules" /\ x.d[key].k = "list" THEN
                      List([i \in DOMAIN x.d[key].items |-> StripExtra(x.d[key].items[i])])
                  ELSE x.d[key]]]
    ELSE x

RECURSIVE RuleDepth(_)
RuleDepth(r) ==
    IF ~r.is_group THEN 0
    ELSE IF r.rules = <<>> THEN 1
    ELSE 1 + SetMin({0 - RuleDepth(r.rules[i]) : i \in DOMAIN r.rules}) * (0 - 1)

\* C1: round trip. For every Rule r that was constructed (Empty, Leaf, Group, nested
\* groups, groups without children), Rule.loads(r.dumps()) is a Rule and equals r
\* under Rule equality.
RoundTrip ==
    reloaded # NotRun =>
        /\ reloaded.ok
        /\ "v" \in DOMAIN reloaded
        /\ RuleEq(reloaded.v, parsed.v)

\* a nested group holding a leaf, an Empty and a group without children was dumped
\* and loaded again
RoundTripWitness ==
    /\ reloaded # NotRun
    /\ parsed.ok
    /\ parsed.v.is_group
    /\ RuleDepth(parsed.v) >= 2
    /\ \E i \in DOMAIN parsed.v.rules :
          parsed.v.rules[i].is_group /\ parsed.v.rules[i].rules = <<>>
    /\ \E i \in DOMAIN parsed.v.rules :
          ~parsed.v.rules[i].is_group /\ ~parsed.v.rules[i].is_empty

\* C8: parse rejection by shape. Rule(x) raises ValidationError for every x that is
\* not a dict and for every dict without a truthy `empty` key whose keys hold neither
\* all of {condition, rules} nor all six leaf fields; {"empty": true} and
\* {"condition": "OR", "rules": []} parse.
RejectedByShape ==
    input # Nothing =>
        /\ input.k # "dict" => parsed = Raise("ValidationError")
        /\ (/\ input.k = "dict"
            /\ ~HasTruthyEmpty(input)
            /\ ~HasAll(input, TwoGroupFields)
            /\ ~HasAll(input, SixLeafFields)) => parsed = Raise("ValidationError")
        /\ input = Dict([empty |-> Bool(TRUE)]) => parsed.ok
        /\ input = Dict([condition |-> Str("OR"), rules |-> List(<<>>)]) => parsed.ok

\* a leaf that lacks only `value` was rejected
RejectedByShapeWitness ==
    /\ input # Nothing
    /\ input.k = "dict"
    /\ KeysOf(input.d) = SixLeafFields \ {"value"}
    /\ parsed = Raise("ValidationError")

\* C9: parse validation of field contents, recursively. Rule(x) raises
\* ValidationError when a group's `rules` is no list, when its `condition` is not
\* AND/OR, when a leaf's input, operator or type is no value of its enumeration, or
\* when a descendant of a group fails to parse; no Rule is returned.
RejectedByContents ==
    (/\ input # Nothing
     /\ input.k = "dict"
     /\ ~HasTruthyEmpty(input)
     /\ HasAll(input, TwoGroupFields) \/ HasAll(input, SixLeafFields)
     /\ Malformed(input)) => parsed = Raise("ValidationError")

\* the same on Python 2, where exceptions carry .message
RejectedByContentsOnPython2 ==
    py = 2 => RejectedByContents

\* C10: classification gives exactly one shape, with fixed precedence. A constructed
\* Rule is exactly one of Empty, Group and Leaf; a truthy `empty` wins over all other
\* keys, then {condition, rules} make a Group even with all six leaf keys present,
\* then the six leaf keys make a Leaf; keys outside the field-sets change nothing.
IsEmptyShape(r) == r.is_empty /\ ~r.is_group /\ DOMAIN r = {"is_empty", "is_group"}
IsGroupShape(r) ==
    r.is_group /\ ~r.is_empty /\ DOMAIN r = {"is_empty", "is_group", "condition", "rules"}
IsLeafShape(r) ==
    ~r.is_group /\ ~r.is_empty /\ DOMAIN r = {"is_empty", "is_group"} \cup SixLeafFields

Classification ==
    /\ (input # Nothing /\ parsed.ok) =>
        /\ Cardinality({sh \in {"empty", "group", "leaf"} :
                \/ sh = "empty" /\ IsEmptyShape(parsed.v)
                \/ sh = "group" /\ IsGroupShape(parsed.v)
                \/ sh = "leaf" /\ IsLeafShape(parsed.v)}) = 1
        /\ HasTruthyEmpty(input) => IsEmptyShape(parsed.v)
        /\ (~HasTruthyEmpty(input) /\ HasAll(input, TwoGroupFields)) =>
                IsGroupShape(parsed.v)
        /\ (/\ ~HasTruthyEmpty(input)
            /\ ~HasAll(input, TwoGroupFields)
            /\ HasAll(input, SixLeafFields)) => IsLeafShape(parsed.v)
    /\ (input # Nothing /\ Rule(StripExtra(input), py).ok) =>
        /\ parsed.ok
        /\ RuleEq(parsed.v, Rule(StripExtra(input), py).v)

\* an object with a falsy `empty`, the group fields, all six leaf fields and an extra
\* key became a Group
ClassificationWitness ==
    /\ input # Nothing
    /\ input.k = "dict"
    /\ KeysOf(input.d) = Keys
    /\ parsed.ok
    /\ parsed.v.is_group

-----------------------------------------------------------------------------
(* the claims about evaluation, checked under SpecEval *)

Evaluated == result # NotRun
TheFilters == Filters(host.item, registry, py, host.order)

\* the nodes of a rule tree: <<number, rule>>, numbered from `first` in
\* left-to-right depth-first order
RECURSIVE NodeCount(_), NodesFrom(_, _), ForestFrom(_, _)
NodeCount(r) ==
    IF r.is_group THEN 1 + Cardinality(ForestFrom(r.rules, 0)) ELSE 1
NodesFrom(r, first) ==
    {<<first, r>>} \cup (IF r.is_group THEN ForestFrom(r.rules, first + 1) ELSE {})
ForestFrom(rs, first) ==
    IF rs = <<>> THEN {}
    ELSE NodesFrom(Head(rs), first) \cup ForestFrom(Tail(rs), first + NodeCount(Head(rs)))

Nodes == NodesFrom(parsed.v, 0)
IsLeafNode(n) == ~n[2].is_group /\ ~n[2].is_empty
\* the node of the i-th child of the group node g
Child(g, i) ==
    <<g[1] + 1 + Cardinality(ForestFrom(SubSeq(g[2].rules, 1, i - 1), 0)), g[2].rules[i]>>
\* the numbers of the nodes below and including node n
Below(n) == n[1]..(n[1] + NodeCount(n[2]) - 1)

\* what the evaluation did
Steps(kind) == SelectSeq(result.trace, LAMBDA e : e.step = kind)
Visited(n) == \E i \in DOMAIN result.trace : result.trace[i].node = n[1]
Did(kind, n) ==
    \E i \in DOMAIN result.trace : result.trace[i] = [step |-> kind, node |-> n[1]]
\* the outcome of evaluating node n: the call's own for the root
Outcome(n) == IF n[1] = 0 THEN result ELSE is_valid(n[2], TheFilters, n[1])
IsTrue(n) == Outcome(n).ok /\ Outcome(n).v
IsFalse(n) == Outcome(n).ok /\ ~Outcome(n).v

\* C2: when the evaluation of a group raises nothing, an AND group is true iff
\* each of its children is true and an OR group iff one of its children is; so
\* a group without children is true for AND and false for OR, and an Empty node
\* is true.
GroupEvaluation ==
    Evaluated =>
        \A g \in Nodes :
            /\ (g[2].is_group /\ Outcome(g).ok) =>
                   LET kids == {Child(g, i) : i \in DOMAIN g[2].rules} IN
                   /\ g[2].condition = "AND" => (Outcome(g).v <=> \A c \in kids : IsTrue(c))
                   /\ g[2].condition = "OR" => (Outcome(g).v <=> \E c \in kids : IsTrue(c))
            /\ g[2].is_empty => IsTrue(g)

\* an OR group whose first child is false and which is true, by a later child
GroupEvaluationWitness ==
    /\ Evaluated
    /\ parsed.v.is_group
    /\ parsed.v.condition = "OR"
    /\ Len(parsed.v.rules) >= 2
    /\ IsFalse(Child(<<0, parsed.v>>, 1))
    /\ result.ok /\ result.v

\* C3: in the evaluation of an AND group, no node of a child that follows a
\* child evaluated to false takes any step (its leaves' accessors are not
\* called); the same for an OR group after a child evaluated to true.
ShortCircuit ==
    Evaluated =>
        \A g \in Nodes :
            g[2].is_group =>
                \A i, j \in DOMAIN g[2].rules :
                    (/\ i < j
                     /\ Visited(Child(g, i))
                     /\ IF g[2].condition = "AND" THEN IsFalse(Child(g, i))
                        ELSE IsTrue(Child(g, i)))
                    => \A e \in Range(result.trace) : e.node \notin Below(Child(g, j))

\* an AND group whose first child is a leaf evaluated to false and whose second
\* child is a leaf
ShortCircuitWitness ==
    /\ Evaluated
    /\ parsed.v.is_group
    /\ parsed.v.condition = "AND"
    /\ Len(parsed.v.rules) >= 2
    /\ IsLeafNode(Child(<<0, parsed.v>>, 1))
    /\ IsLeafNode(Child(<<0, parsed.v>>, 2))
    /\ Did("func", Child(<<0, parsed.v>>, 1))
    /\ IsFalse(Child(<<0, parsed.v>>, 1))
    /\ result.ok /\ ~result.v

\* C4: the accessor calls of an evaluation are made for leaves of the tree, in
\* strictly increasing depth-first order: no leaf twice, none before a leaf
\* that precedes it.
EvaluationOrder ==
    Evaluated =>
        LET calls == Steps("func") IN
        /\ \A i \in DOMAIN calls : \E n \in Nodes : n[1] = calls[i].node /\ IsLeafNode(n)
        /\ \A i, j \in DOMAIN calls : i < j => calls[i].node < calls[j].node

\* two leaves evaluated, the second one inside a nested group
EvaluationOrderWitness ==
    /\ Evaluated
    /\ Len(Steps("func")) >= 2
    /\ \E g \in Nodes : /\ g[2].is_group
                        /\ g[1] > 0
                        /\ \E i \in DOMAIN g[2].rules :
                              /\ Did("func", Child(g, i))
                              /\ Steps("func")[1].node < g[1]

\* the filter a leaf names, when the registry has one
Registered(leaf) ==
    leaf.id.k = "str" /\ leaf.id.s \in DOMAIN registry /\ registry[leaf.id.s] # NoFilter
FilterOf(leaf) == registry[leaf.id.s]
HostValue(leaf) == host.item[FilterOf(leaf).func]

\* a number below the declared min, above the declared max, or off the declared
\* steps counted from the min (from 0 without one); a string that is not four
\* characters, a dash, four characters, a dash and four characters, the
\* declared format
Declares(filter, key) == filter.validation[key] # None
FailsMin(filter, v) ==
    Declares(filter, "min") /\ v.k = "num" /\ v.m < filter.validation["min"].m
FailsMax(filter, v) ==
    Declares(filter, "max") /\ v.k = "num" /\ v.m > filter.validation["max"].m
FailsStep(filter, v) ==
    /\ Declares(filter, "step")
    /\ v.k = "num"
    /\ LET base == IF Declares(filter, "min") THEN filter.validation["min"].m ELSE 0
       IN  (v.m - base) % filter.validation["step"].m # 0
FailsFormat(filter, v) ==
    /\ filter.validation["format"] = Str("/^.{4}-.{4}-.{4}$/")
    /\ v.k = "str"
    /\ ~(Len(Chars(v.s)) = 14 /\ Chars(v.s)[5] = "-" /\ Chars(v.s)[10] = "-")
FailsValidation(leaf) ==
    \/ FailsMin(FilterOf(leaf), HostValue(leaf))
    \/ FailsMax(FilterOf(leaf), HostValue(leaf))
    \/ FailsStep(FilterOf(leaf), HostValue(leaf))
    \/ FailsFormat(FilterOf(leaf), HostValue(leaf))

OperatorPermission ==
    Evaluated =>
        \A n \in Nodes :
            (/\ IsLeafNode(n)
             /\ Visited(n)
             /\ Registered(n[2])
             /\ n[2].operator \notin FilterOf(n[2]).operators)
            => ~Outcome(n).ok

\* C7: the evaluation of a leaf whose id the registry does not hold raises a
\* LookupError, without a call of an accessor or of an operator handler for
\* that leaf.
LookupErrors == {"LookupError", "KeyError", "IndexError"}

UnknownFilterId ==
    Evaluated =>
        \A n \in Nodes :
            (IsLeafNode(n) /\ Visited(n) /\ ~Registered(n[2])) =>
                /\ ~Outcome(n).ok
                /\ Outcome(n).err \in LookupErrors
                /\ ~Did("func", n)
                /\ ~Did("operator_handler", n)

\* a leaf with an unregistered id evaluated inside a group, after a sibling
UnknownFilterIdWitness ==
    /\ Evaluated
    /\ \E n \in Nodes : /\ IsLeafNode(n)
                        /\ n[1] > 1
                        /\ Visited(n)
                        /\ ~Registered(n[2])
    /\ ~result.ok


-----------------------------------------------------------------------------
(* Rule.__eq__ on two Rules *)

\* largest number of nodes of a rule tree that is compared
MaxEqNodes == 3

\* the leaf of tests/test_rules.py:316-326 and leaves that differ from it in
\* one field (1, 1.0 and True are equal values in Python), the Empty rule and
\* the groups of either condition without children and over that leaf
EqSingles ==
    {HenryLeaf, EmptyMarker} \cup
    {[HenryLeaf EXCEPT !.d["id"] = Str("id")],
     [HenryLeaf EXCEPT !.d["field"] = Str("id")],
     [HenryLeaf EXCEPT !.d["input"] = Str("number")],
     [HenryLeaf EXCEPT !.d["operator"] = Str("not_equal")],
     [HenryLeaf EXCEPT !.d["type"] = Str("integer")]} \cup
    {[HenryLeaf EXCEPT !.d["value"] = v] :
        v \in {Str("hello"), Num(1), Bool(TRUE), Num(2), None, List(<<Num(1)>>),
               List(<<Bool(TRUE)>>), List(<<>>)}} \cup
    {RawGroup(c, rs) : c \in {"AND", "OR"}, rs \in {<<>>, <<HenryLeaf>>}}

\* the AND groups nested over a leaf, the Empty rule and an OR group
EqAtoms == <<HenryLeaf, EmptyMarker, RawGroup("OR", <<>>)>>
EqTrees == UNION {TreeShapes(DOMAIN EqAtoms, {"AND"}, n) : n \in 1..MaxEqNodes}

\* a == b for the Rules of two raw objects
Eq(x, y) ==
    LET a == Rule(x, py)
        b == Rule(y, py)
    IN  /\ call = NoCall
        /\ a.ok /\ b.ok
        /\ call' = [fn |-> "__eq__", self |-> a.v, other |-> b.v, out |-> RuleEq(a.v, b.v)]
        /\ UNCHANGED <<py, registry, input, parsed, dumped, reloaded, host, result>>

NextEq ==
    \/ call = NoCall /\ \E x \in EqSingles, y \in EqSingles : Eq(x, y)
    \/ call = NoCall /\ \E s \in EqTrees, t \in EqTrees :
                            Eq(RawTree(s, EqAtoms), RawTree(t, EqAtoms))

SpecEq == Init /\ [][NextEq]_vars

IsEmptyNode(r) == r.is_empty
IsGroupNode(r) == r.is_group /\ ~r.is_empty
IsLeaf(r) == ~r.is_group /\ ~r.is_empty
Reverse(seq) == [i \in DOMAIN seq |-> seq[Len(seq) + 1 - i]]

\* same shape, and: both Empty, or both Group with the same condition and as
\* many children that are pairwise the same in order, or both Leaf with equal
\* id, field, input, operator, type and value
RECURSIVE SameStructure(_, _)
SameStructure(a, b) ==
    \/ IsEmptyNode(a) /\ IsEmptyNode(b)
    \/ /\ IsGroupNode(a) /\ IsGroupNode(b)
       /\ a.condition = b.condition
       /\ Len(a.rules) = Len(b.rules)
       /\ \A i \in 1..Len(a.rules) : SameStructure(a.rules[i], b.rules[i])
    \/ /\ IsLeaf(a) /\ IsLeaf(b)
       /\ \A f \in {"id", "field", "value"} : PyEq(a[f], b[f])
       /\ \A f \in {"input", "operator", "type"} : a[f] = b[f]

Compared == call.fn = "__eq__"
DifferentShapes(a, b) ==
    <<IsEmptyNode(a), IsGroupNode(a), IsLeaf(a)>> # <<IsEmptyNode(b), IsGroupNode(b), IsLeaf(b)>>
Reordered(a, b) ==
    /\ IsGroupNode(a) /\ IsGroupNode(b) /\ a.condition = b.condition
    /\ Len(a.rules) = 2 /\ b.rules = Reverse(a.rules)
    /\ ~SameStructure(a.rules[1], a.rules[2])

\* C11: structural equality. a == b iff a and b have the same shape and are both
\* Empty, or both Group with the same condition and equally many children that
\* are pairwise equal in order, or both Leaf with equal id, field, input,
\* operator, type and value; Rules of different shapes are never equal, and a
\* group is unequal to itself with its two unequal children swapped.
StructuralEquality ==
    Compared =>
        /\ call.out = SameStructure(call.self, call.other)
        /\ DifferentShapes(call.self, call.other) => ~call.out
        /\ Reordered(call.self, call.other) => ~call.out

StructuralEqualityWitness ==
    /\ Compared
    /\ Reordered(call.self, call.other)
    /\ ~call.out
    /\ RuleEq(call.self, call.self)


-----------------------------------------------------------------------------
(* the operator handlers called directly *)

\* the integers handed to between are those of -MaxInt..MaxInt
MaxInt == 2

\* an object that is no member of Operator
FakeOperator == "fake_operator"

HandlerOperands ==
    {None, Bool(TRUE), Num(0), Num(1), Num(2), Str(""), Str("he"), Str("hello"),
     List(<<>>), List(<<Num(1)>>), List(<<Str("he")>>)}

OperandTuples(n) ==
    CASE n = 1 -> {<<a>> : a \in HandlerOperands}
      [] n = 2 -> {<<a, b>> : a \in HandlerOperands, b \in HandlerOperands}
      [] n = 3 -> {<<a, b, c>> : a \in HandlerOperands, b \in HandlerOperands,
                                c \in HandlerOperands}

IntegerPairs ==
    {<<Num(l), Num(r)>> : l \in (0 - MaxInt)..MaxInt, r \in (0 - MaxInt)..MaxInt}

IntegerTriples ==
    {<<Num(v), Num(lo), Num(hi)>> :
        v \in (0 - MaxInt)..MaxInt, lo \in (0 - MaxInt)..MaxInt, hi \in (0 - MaxInt)..MaxInt}

\* cls.handler_for_operator(operator)
Resolve(cls, operator) ==
    /\ call' = [fn |-> "handler_for_operator", cls |-> cls, operator |-> operator,
                out |-> handler_for_operator(cls, operator)]
    /\ UNCHANGED <<py, registry, input, parsed, dumped, reloaded, host, result>>

\* the handler of an operator called with operands
Handle(operator, operands) ==
    /\ call' = [fn |-> "handler", operator |-> operator, operands |-> operands,
                out |-> call_handler(handler_for_operator("StringFilter", operator).v, operands, py)]
    /\ UNCHANGED <<py, registry, input, parsed, dumped, reloaded, host, result>>

NextHandlers ==
    \/ call = NoCall /\ \E cls \in Range(ClassOrder), operator \in AllOperators \cup {FakeOperator} :
                            Resolve(cls, operator)
    \/ call = NoCall /\ \E operator \in AllOperators :
                            \E operands \in OperandTuples(Arity(operator)) : Handle(operator, operands)
    \/ call = NoCall /\ \E operator \in ternary_comparisons :
                            \E operands \in IntegerTriples : Handle(operator, operands)
    \/ call = NoCall /\ \E operator \in binary_comparisons :
                            \E operands \in IntegerPairs : Handle(operator, operands)

SpecHandlers == Init /\ [][NextHandlers]_vars

Resolved == call.fn = "handler_for_operator"
\* cls and the classes it inherits from, nearest first
RECURSIVE Lineage(_)
Lineage(cls) == IF cls = "ToDictMixin" THEN <<>> ELSE <<cls>> \o Lineage(bases(cls))
Declaring(cls, operator) ==
    SelectSeq(Lineage(cls), LAMBDA c : operator \in DOMAIN declared_handlers(c))

\* C12: handler resolution. handler_for_operator(C, op) returns the handler
\* declared on C or on the nearest class C inherits from, Filter last, and fails
\* with a LookupError when none of them declares one; so a handler declared only
\* on StringFilter is never returned for IntegerFilter or for Filter.
HandlerResolution ==
    Resolved =>
        IF Declaring(call.cls, call.operator) = <<>> THEN call.out = Raise("KeyError")
        ELSE call.out = Ok([op |-> call.operator,
                            owner |-> Head(Declaring(call.cls, call.operator))])


Handled(operators) == call.fn = "handler" /\ call.operator \in operators
OnIntegers == call.operands \in IntegerTriples
IntOf(x) == x.m \div 1000
Inside == IntOf(call.operands[2]) <= IntOf(call.operands[1])
          /\ IntOf(call.operands[1]) <= IntOf(call.operands[3])

\* C13: between is inclusive. For integers v, lo and hi of -MaxInt..MaxInt,
\* between(v, lo, hi) is true iff lo <= v <= hi: true at both end points, false
\* just outside either, false for every v when lo > hi; not_between is the
\* opposite.
BetweenInclusive ==
    Handled(ternary_comparisons) /\ OnIntegers =>
        /\ call.operator = "BETWEEN" => call.out = Ok(Inside)
        /\ call.operator = "NOT_BETWEEN" => call.out = Ok(~Inside)
        /\ IntOf(call.operands[2]) > IntOf(call.operands[3]) =>
              call.out = Ok(call.operator = "NOT_BETWEEN")

BetweenInclusiveWitness ==
    /\ Handled({"BETWEEN"}) /\ OnIntegers
    /\ IntOf(call.operands[2]) < IntOf(call.operands[3])
    /\ call.operands[1] \in {call.operands[2], call.operands[3]}
    /\ call.out = Ok(TRUE)


Positive ==
    [op \in {"NOT_EQUAL", "NOT_IN", "NOT_CONTAINS", "NOT_BETWEEN", "NOT_BEGINS_WITH",
              "NOT_ENDS_WITH", "IS_NOT_NULL", "IS_NOT_EMPTY"} |->
        CASE op = "NOT_EQUAL" -> "EQUAL"
          [] op = "NOT_IN" -> "IN"
          [] op = "NOT_CONTAINS" -> "CONTAINS"
          [] op = "NOT_BETWEEN" -> "BETWEEN"
          [] op = "NOT_BEGINS_WITH" -> "BEGINS_WITH"
          [] op = "NOT_ENDS_WITH" -> "ENDS_WITH"
          [] op = "IS_NOT_NULL" -> "IS_NULL"
          [] op = "IS_NOT_EMPTY" -> "IS_EMPTY"]
\* what the positive handler of the pair returns for the operands of the call
PositiveOutcome ==
    call_handler(handler_for_operator("StringFilter", Positive[call.operator]).v,
                 call.operands, py)

-----------------------------------------------------------------------------
(* the claims about the coercion of a leaf's value, checked under SpecEval *)

Root == <<0, parsed.v>>
RootIsLeaf == Evaluated /\ parsed.ok /\ IsLeafNode(Root)
PairOfLiterals(v) == v.k = "list" /\ Len(v.items) = 2
NumericFilter(filter) == filter.type \in {"INTEGER", "DOUBLE"}
\* lo <= v <= hi over numbers
Within(v, lo, hi) == NumOf(lo) <= NumOf(v) /\ NumOf(v) <= NumOf(hi)

\* C15: array literals. For a leaf with operator between on an integer or double
\* filter whose value is an array [lo, hi], and a number of the host that passes
\* validation, each of lo and hi is coerced by the declared type and is_valid
\* returns whether coerce(lo) <= v <= coerce(hi).
ArraySpread ==
    /\ RootIsLeaf /\ Registered(parsed.v) /\ NumericFilter(FilterOf(parsed.v))
    /\ parsed.v.operator = "BETWEEN" /\ PairOfLiterals(parsed.v.value)
    /\ IsNumber(HostValue(parsed.v)) /\ Did("python_value", Root)
    /\ python_types(FilterOf(parsed.v).type, parsed.v.value.items[1]).ok
    /\ python_types(FilterOf(parsed.v).type, parsed.v.value.items[2]).ok
    => /\ result.ok
       /\ result.v = Within(HostValue(parsed.v),
                            python_types(FilterOf(parsed.v).type, parsed.v.value.items[1]).v,
                            python_types(FilterOf(parsed.v).type, parsed.v.value.items[2]).v)


\* the value of the root leaf converted for the type the rule carries, and what
\* its operator's handler makes of the host's value and that
ByRuleType == python_types(parsed.v.type, parsed.v.value)
HandledByRuleType ==
    call_handler(handler_for_operator(FilterOf(parsed.v).cls, parsed.v.operator).v,
                 operands_of(HostValue(parsed.v), ByRuleType.v), py)
SameOutcome(a, b) ==
    /\ a.ok = b.ok
    /\ a.ok => a.v = b.v
    /\ ~a.ok => a.err = b.err

\* C16: coercion by the rule's type. When a leaf is evaluated and its value is
\* converted, the conversion is that of the type the rule carries, whatever the
\* type of the registered filter: a conversion that fails is the error of the
\* evaluation, and otherwise the handler is applied to the converted value.
CoercionByRuleType ==
    /\ RootIsLeaf /\ Registered(parsed.v) /\ Did("python_value", Root)
    /\ parsed.v.value # None
    => IF ~ByRuleType.ok THEN ~result.ok /\ result.err = ByRuleType.err
       ELSE SameOutcome(result, HandledByRuleType)


-----------------------------------------------------------------------------
(* the registry: filters registered one after the other, and looked up *)

\* the decorators of the test modules, and two that register another filter
\* under an id already taken, by its id and by its accessor's name
Redecorators ==
    {Decorators[n] : n \in DOMAIN Decorators} \cup
    {[cls |-> "IntegerFilter", id |-> Str("name"), operators |-> NotGiven,
      validation |-> [min |-> Num(0)], func |-> "category"],
     [cls |-> "StringFilter", id |-> None, operators |-> NotGiven,
      validation |-> <<>>, func |-> "toxicity"]}

\* the key a decorator registers under
KeyOf(d) == IF Truthy(d.id) THEN d.id.s ELSE d.func

\* @Cls(id, ...) applied to an accessor
Register(d) ==
    /\ registry' = FilterCall(registry, FilterInit(d.cls, d.id, d.operators, d.validation).v,
                              d.func)
    /\ call' = [fn |-> "__call__", decorator |-> d, replaced |-> registry[KeyOf(d)]]
    /\ UNCHANGED <<py, input, parsed, dumped, reloaded, host, result>>

\* Filter._filter_registry[id]
Lookup(id) ==
    /\ call' = [fn |-> "lookup", id |-> id, out |-> lookup(registry, Str(id))]
    /\ UNCHANGED <<py, registry, input, parsed, dumped, reloaded, host, result>>

NextRegistry ==
    \/ \E d \in Redecorators : Register(d)
    \/ \E id \in FilterIds \cup {"unknown"} : Lookup(id)

SpecRegistry == Init /\ [][NextRegistry]_vars

LookupIds == FilterIds \cup {"unknown"}
Fails(reg, id) == lookup(reg, Str(id)) = Raise("KeyError")
\* the step registers a filter
Registers == call'.fn = "__call__" /\ call' # call
\* the descriptor of a decorator: its class, its validation, the accessor it is
\* applied to, and the key as its id
Describes(filter, d) ==
    /\ filter.cls = d.cls /\ filter.func = d.func /\ filter.id = Str(KeyOf(d))
    /\ filter.validation = Validation(d.validation)

\* C17: the registry. Before any registration every lookup fails with a
\* LookupError.  A registration makes the lookup of its id (the accessor's name
\* when no id is given) return the filter just registered, whatever was
\* registered under that id before; no step changes what the lookup of another
\* id returns, so a lookup returns the filter most recently registered under
\* the id, an id once registered stays resolvable, and an id never registered
\* keeps failing with a LookupError.  A lookup returns what the registry holds.
RegistryLookup ==
    /\ \A id \in LookupIds : Fails(registry, id)
    /\ [][/\ Registers =>
              /\ lookup(registry', Str(KeyOf(call'.decorator))).ok
              /\ Describes(lookup(registry', Str(KeyOf(call'.decorator))).v, call'.decorator)
          /\ \A id \in LookupIds :
              /\ ~(Registers /\ KeyOf(call'.decorator) = id) =>
                    lookup(registry', Str(id)) = lookup(registry, Str(id))
              /\ lookup(registry, Str(id)).ok => lookup(registry', Str(id)).ok
              /\ ~lookup(registry, Str(id)).ok => Fails(registry, id)
          /\ call'.fn = "lookup" /\ call' # call =>
                call'.out = lookup(registry, Str(call'.id))]_vars

\* a filter registered under an id that held another filter, next to other ids
RegistryLookupWitness ==
    /\ call.fn = "__call__"
    /\ call.replaced # NoFilter
    /\ ~Describes(call.replaced, call.decorator)
    /\ Describes(lookup(registry, Str(KeyOf(call.decorator))).v, call.decorator)
    /\ call.decorator.id = None
    /\ \E id \in FilterIds : id # KeyOf(call.decorator) /\ lookup(registry, Str(id)).ok
    /\ \E id \in FilterIds : Fails(registry, id)


-----------------------------------------------------------------------------
(* the scenarios of tests/test_rules.py: rule_1 and rule_2 on items *)

\* the prices of the items lie within PriceRadius thousandths of 0 and of 10.25
PriceRadius == 12

ScenarioLeaf(id, type, inp, operator, value) ==
    Dict([id |-> Str(id), field |-> Str(id), type |-> Str(type), input |-> Str(inp),
          operator |-> Str(operator), value |-> Str(value)])

\* price < 10.25 AND (category == 2 OR category == 1)
rule_1 ==
    Dict([condition |-> Str("AND"),
          rules |-> List(<<ScenarioLeaf("price", "double", "number", "less", "10.25"),
                           RawGroup("OR", <<ScenarioLeaf("category", "integer", "select", "equal", "2"),
                                            ScenarioLeaf("category", "integer", "select", "equal", "1")>>)>>),
          valid |-> Bool(TRUE)])

\* (name == henry OR id == 1111-1111-1111 OR category == 4) AND in_stock == 1
rule_2 ==
    Dict([condition |-> Str("AND"),
          rules |-> List(<<RawGroup("OR", <<ScenarioLeaf("name", "string", "text", "equal", "henry"),
                                            ScenarioLeaf("id", "string", "text", "equal", "1111-1111-1111"),
                                            ScenarioLeaf("category", "integer", "select", "equal", "4")>>),
                           ScenarioLeaf("in_stock", "integer", "radio", "equal", "1")>>),
          valid |-> Bool(TRUE)])

\* the categories of the category filter's values
Categories == 1..6

PriceGrid ==
    {0 - 1000, 10000} \cup ((0 - PriceRadius)..PriceRadius)
        \cup ((10250 - PriceRadius)..(10250 + PriceRadius))

PriceItems ==
    {[Item EXCEPT !.price = Milli(p), !.category = Num(c)] : p \in PriceGrid, c \in Categories}

StockItems ==
    {[Item EXCEPT !.name = Str(n), !.id = Str(i), !.category = Num(c), !.in_stock = Bool(b)] :
        n \in {"hello", "henry"},
        i \in {"abcd-1234-de56", "1111-1111-1111", "1111-1111-1112", "111111111111"},
        c \in Categories, b \in BOOLEAN}

ScenarioOrders ==
    [version \in PythonVersions |->
        [item \in PriceItems \cup StockItems |-> OrdersFor(SomeFilters, item, version)]]

NextScenario ==
    \/ input = Nothing /\ \E x \in {rule_1, rule_2} : Construct(x)
    \/ /\ parsed.ok /\ host = Nothing
       /\ \E item \in PriceItems : \E order \in ScenarioOrders[py][item] : IsValid(item, order)
    \/ /\ parsed.ok /\ host = Nothing
       /\ \E item \in StockItems : \E order \in ScenarioOrders[py][item] : IsValid(item, order)

SpecScenario == InitEval /\ [][NextScenario]_vars

Price == host.item.price.m
Category == host.item.category.m \div 1000

\* C18: the price scenario. For rule_1, the price filter declared with min 0 and
\* step 0.01, and every item with a price of the grid of thousandths and a
\* category of 1..6, is_valid is true iff the price is at least 0, a multiple
\* of 0.01 and below 10.25 and the category is 1 or 2.
PriceScenario ==
    Evaluated /\ input = rule_1 /\ host.item \in PriceItems =>
        /\ result.ok
        /\ result.v = (/\ Price >= 0 /\ Price % 10 = 0 /\ Price < 10250
                       /\ Category \in {1, 2})

\* 10.24 passes: on the step, below the exclusive bound
PriceScenarioWitness ==
    /\ Evaluated /\ input = rule_1 /\ host.item \in PriceItems
    /\ Price = 10240 /\ Category = 2
    /\ result.ok /\ result.v

IdLeaf == <<3, parsed.v.rules[1].rules[2]>>
CategoryLeaf == <<4, parsed.v.rules[1].rules[3]>>

\* C19: the string-id scenario. For rule_2 and the id filter declared with the
\* format xxxx-xxxx-xxxx, is_valid is true iff the item is in stock and its
\* name is henry, its id is 1111-1111-1111 or its category is 4; an id that
\* does not match the format makes the id leaf false with no operator run on
\* it, and the category leaf after it is still evaluated.
StringIdScenario ==
    Evaluated /\ input = rule_2 /\ host.item \in StockItems =>
        /\ result.ok
        /\ result.v = (/\ host.item.in_stock = Bool(TRUE)
                       /\ \/ host.item.name = Str("henry")
                          \/ host.item.id = Str("1111-1111-1111")
                          \/ Category = 4)
        /\ Visited(IdLeaf) /\ host.item.id = Str("111111111111") =>
              /\ IsFalse(IdLeaf)
              /\ Did("validate", IdLeaf)
              /\ ~Did("python_value", IdLeaf) /\ ~Did("operator_handler", IdLeaf)
              /\ Visited(CategoryLeaf)

StringIdScenarioWitness ==
    /\ Evaluated /\ input = rule_2
    /\ host.item.id = Str("111111111111") /\ host.item.name = Str("hello")
    /\ Category = 4 /\ host.item.in_stock = Bool(TRUE)
    /\ Visited(IdLeaf) /\ ~Did("operator_handler", IdLeaf)
    /\ result.ok /\ result.v


-----------------------------------------------------------------------------
(* the claim about errors in groups, checked under SpecEval *)

IsGroup(n) == n[2].is_group
ChildrenOf(g) == DOMAIN g[2].rules
RaisedIn(c) == Visited(c) /\ ~Outcome(c).ok

\* C20: error propagation. When a child of a group is evaluated and raises (an
\* unknown filter id, a conversion that fails, a handler that fails), the group
\* raises the same error and evaluates no child after it, and so does each
\* group around it: the call of is_valid raises that error.
ErrorPropagation ==
    Evaluated /\ parsed.ok =>
        \A g \in Nodes : IsGroup(g) /\ Visited(g) =>
            \A i \in ChildrenOf(g) : RaisedIn(Child(g, i)) =>
                /\ ~Outcome(g).ok /\ Outcome(g).err = Outcome(Child(g, i)).err
                /\ ~result.ok /\ result.err = Outcome(Child(g, i)).err
                /\ \A j \in ChildrenOf(g) : j > i => ~Visited(Child(g, j))

\* the second child of an inner group raises after a first that did not, with
\* a child of the outer group left
ErrorPropagationWitness ==
    /\ Evaluated /\ parsed.ok
    /\ \E g \in Nodes :
          /\ g[1] = 1 /\ IsGroup(g) /\ Len(g[2].rules) = 2
          /\ Outcome(Child(g, 1)).ok
          /\ RaisedIn(Child(g, 2)) /\ Outcome(Child(g, 2)).err = "ValueError"
    /\ Len(parsed.v.rules) = 2
    /\ ~result.ok /\ result.err = "ValueError"


Left == IntOf(call.operands[1])
Right == IntOf(call.operands[2])
Native(operator) ==
    CASE operator = "EQUAL" -> Left = Right
      [] operator = "NOT_EQUAL" -> Left # Right
      [] operator = "LESS" -> Left < Right
      [] operator = "LESS_OR_EQUAL" -> Left <= Right
      [] operator = "GREATER" -> Left > Right
      [] operator = "GREATER_OR_EQUAL" -> Left >= Right

\* C21: the default comparison handlers agree with the native comparisons. For
\* all integers l and r of -MaxInt..MaxInt, equal, not_equal, less,
\* less_or_equal, greater and greater_or_equal return l == r, l != r, l < r,
\* l <= r, l > r and l >= r.
NativeComparison ==
    Handled(binary_comparisons) /\ call.operands \in IntegerPairs =>
        call.out = Ok(Native(call.operator))

\* greater of two equal integers is false
NativeComparisonWitness ==
    /\ Handled({"GREATER"}) /\ call.operands \in IntegerPairs
    /\ Left = Right
    /\ call.out = Ok(FALSE)


-----------------------------------------------------------------------------
(* the claims about operators reached through is_valid, checked under SpecEval *)

Unvalidated(filter) == \A key \in DOMAIN filter.validation : ~Declares(filter, key)

\* C22: the unary operators through evaluation. For a leaf with operator is_null
\* (is_not_null) and the value null, on a filter that declares no validation,
\* is_valid returns whether the host's value is None (is not None); the null
\* value is not converted and nothing raises.
UnaryThroughEvaluation ==
    /\ RootIsLeaf /\ Registered(parsed.v) /\ Unvalidated(FilterOf(parsed.v))
    /\ parsed.v.operator \in unary_comparisons /\ parsed.v.value = None
    => /\ result.ok
       /\ result.v = ((HostValue(parsed.v) = None) = (parsed.v.operator = "IS_NULL"))


Permits(filter, operator) == operator \in filter.operators
\* the items of the root leaf's array, each converted for the filter's type
Coerced(i) == python_types(FilterOf(parsed.v).type, parsed.v.value.items[i])

\* C23: membership through evaluation. For a leaf with operator in (not_in)
\* whose value is an array of literals, of any length, on a filter that permits
\* the operator, is_valid returns whether the host's value is (is not) equal to
\* one of the array's items, each converted for the declared type.
MembershipThroughEvaluation ==
    /\ RootIsLeaf /\ Registered(parsed.v)
    /\ parsed.v.operator \in {"IN", "NOT_IN"} /\ Permits(FilterOf(parsed.v), parsed.v.operator)
    /\ parsed.v.value.k = "list" /\ Did("python_value", Root)
    /\ \A i \in DOMAIN parsed.v.value.items : Coerced(i).ok
    => /\ result.ok
       /\ result.v = ((\E i \in DOMAIN parsed.v.value.items :
                            PyEq(HostValue(parsed.v), Coerced(i).v))
                      = (parsed.v.operator = "IN"))


-----------------------------------------------------------------------------
(* Filter.python_value called directly *)

\* the longest literal converted, in characters
MaxLiteralLen == 5

\* the literals converted: the listed strings up to that length, and null
Literals == {Str(s) : s \in {t \in Strings : Len(Chars(t)) <= MaxLiteralLen}} \cup {None}

\* a filter of the class, converting a literal
Coerce(cls, literal) ==
    /\ call' = [fn |-> "python_value", cls |-> cls, literal |-> literal,
                out |-> python_value(FilterInit(cls, None, NotGiven, <<>>).v, literal)]
    /\ UNCHANGED <<py, registry, input, parsed, dumped, reloaded, host, result>>

NextCoerce ==
    call = NoCall /\ \E cls \in FilterClasses, literal \in Literals : Coerce(cls, literal)

SpecCoerce == Init /\ [][NextCoerce]_vars

CoercedBy(cls) == call.fn = "python_value" /\ call.cls = cls
DecimalDigits(cs) == cs # <<>> /\ \A i \in DOMAIN cs : cs[i] \in Digits

\* C24: boolean coercion. For the boolean type and every string s, the
\* conversion yields true iff s is made of digits and its integer value is not
\* zero, or s is "true"; every other string yields false, and no string raises.
BooleanCoercion ==
    CoercedBy("BooleanFilter") /\ call.literal.k = "str" =>
        call.out = Ok(Bool(\/ /\ DecimalDigits(Chars(call.literal.s))
                              /\ DigitsValue(Chars(call.literal.s)) # 0
                           \/ call.literal.s = "true"))


-----------------------------------------------------------------------------
(* the claims about the steps of an evaluation, checked under SpecEval *)

LeafSteps ==
    <<"is_valid", "lookup", "func", "validate", "python_value", "handler_for_operator",
      "operator_handler">>
\* the steps taken for node n, in the order they were taken
StepsAt(n) ==
    LET own == SelectSeq(result.trace, LAMBDA e : e.node = n[1])
    IN  [i \in DOMAIN own |-> own[i].step]
IsPrefix(s, t) == Len(s) <= Len(t) /\ s = SubSeq(t, 1, Len(s))
\* what the handler of the leaf returns for the host's value on the left and the
\* converted value of the rule
Dispatched(leaf) ==
    LET converted == python_value(FilterOf(leaf), leaf.value).v
        operands == IF converted.k = "list" THEN <<HostValue(leaf)>> \o converted.items
                    ELSE <<HostValue(leaf), converted>>
    IN  call_handler(handler_for_operator(FilterOf(leaf).cls, leaf.operator).v, operands, py)

\* C25: the steps of a leaf. An evaluated leaf looks up the filter of its id,
\* calls the host's accessor once, validates the host's value, converts the
\* rule's value, resolves and calls the operator's handler with the host's value
\* as the left operand, in this order and as far as no step raises; when the
\* validation fails the leaf is false with no conversion and no handler, so
\* that a literal that cannot be converted raises nothing then.
LeafStepOrder ==
    Evaluated /\ parsed.ok =>
        \A n \in Nodes : IsLeafNode(n) /\ Visited(n) =>
            /\ IsPrefix(StepsAt(n), LeafSteps)
            /\ Registered(n[2]) => Len(StepsAt(n)) >= 4
            /\ Registered(n[2]) /\ FailsValidation(n[2]) =>
                  StepsAt(n) = SubSeq(LeafSteps, 1, 4) /\ IsFalse(n)
            /\ Len(StepsAt(n)) = 7 => SameOutcome(Outcome(n), Dispatched(n[2]))
            /\ ~Outcome(n).ok => Len(StepsAt(n)) \in {2, 4, 5, 6, 7}

\* a price off the step with a literal that is no number: false, nothing raised
LeafStepOrderWitness ==
    /\ RootIsLeaf /\ Registered(parsed.v)
    /\ FailsStep(FilterOf(parsed.v), HostValue(parsed.v))
    /\ ~python_value(FilterOf(parsed.v), parsed.v.value).ok
    /\ StepsAt(Root) = <<"is_valid", "lookup", "func", "validate">>
    /\ result.ok /\ ~result.v


-----------------------------------------------------------------------------
(* Filter.validate and IntegerFilter.validate_step called directly, on numeric
   filters with every choice of min, max and step *)

MaxValue == 5
Validations ==
    {[min |-> min, max |-> max, step |-> step] :
        min \in {None, Num(0), Num(1)}, max \in {None, Num(4)},
        step \in {None, Num(2), Milli(500)}}
NumericValues ==
    {Num(i) : i \in (0 - 1)..MaxValue} \cup {Milli(1500), Milli(2250)}

\* filter.validate(value) of a DoubleFilter built with the validation
Validate(validation, value, order) ==
    LET self == FilterInit("DoubleFilter", Str("price"), NotGiven, validation).v IN
    /\ call' = [fn |-> "validate", self |-> self, value |-> value, order |-> order,
                out |-> validate(self, value, py, order)]
    /\ UNCHANGED <<py, registry, input, parsed, dumped, reloaded, host, result>>

\* filter.validate_step(value)
ValidateStep(validation, value) ==
    LET self == FilterInit("DoubleFilter", Str("price"), NotGiven, validation).v IN
    /\ call' = [fn |-> "validate_step", self |-> self, value |-> value,
                out |-> validate_step(self, value, py)]
    /\ UNCHANGED <<py, registry, input, parsed, dumped, reloaded, host, result>>

NextValidate ==
    \/ call = NoCall /\ \E validation \in Validations, value \in NumericValues,
                            order \in ValidationOrders : Validate(validation, value, order)
    \/ call = NoCall /\ \E validation \in Validations, value \in NumericValues :
                            ValidateStep(validation, value)
SpecValidate == Init /\ [][NextValidate]_vars

\* the base the steps are counted from: the declared min, 0 without one
StepBase(filter) == IF Declares(filter, "min") THEN filter.validation["min"].m ELSE 0
OnStepFromBase(filter, v) ==
    LET step == filter.validation["step"].m IN (v.m - StepBase(filter)) % step = 0

\* C26: the step rule. With a step declared, a value passes validate_step
\* exactly when the value minus the base (the declared min, 0 without one) is a
\* multiple of the step; validate is the conjunction of the min, max and step
\* rules.
StepValidation ==
    /\ call.fn = "validate_step" /\ Declares(call.self, "step") =>
            (call.out = Ok(Bool(TRUE))) = OnStepFromBase(call.self, call.value)
    /\ call.fn = "validate" =>
            call.out = Ok(~ \/ FailsMin(call.self, call.value)
                            \/ FailsMax(call.self, call.value)
                            \/ FailsStep(call.self, call.value))


\* the leaves of the tree, and those the evaluation came to with a registered id
Leaves == {n \in Nodes : IsLeafNode(n)}
Reached == {n \in Leaves : Visited(n) /\ Registered(n[2])}
Visits(n) == Len(SelectSeq(result.trace, LAMBDA e : e.step = "is_valid" /\ e.node = n[1]))
Accesses(n) == Len(SelectSeq(result.trace, LAMBDA e : e.step = "func" /\ e.node = n[1]))

EvaluationFrame ==
    [][result' # result =>
          /\ registry' = registry
          /\ {id \in DOMAIN registry' : registry'[id] # NoFilter}
                = {id \in DOMAIN registry : registry[id] # NoFilter}
          /\ parsed'.ok /\ to_dict(parsed'.v) = to_dict(parsed.v)]_vars

\* an evaluation that raised after an accessor was called, the registry of the
\* tests still in place
EvaluationFrameWitness ==
    /\ Evaluated /\ parsed.ok /\ ~result.ok
    /\ Len(Steps("func")) > 0
    /\ registry = SomeFilters


-----------------------------------------------------------------------------
(* the claim about errors behind a short circuit, checked under SpecEval *)

\* child i decides the group g: false in an AND group, true in an OR group
Decides(g, i) ==
    Outcome(Child(g, i)).ok /\ Outcome(Child(g, i)).v = (g[2].condition = "OR")
WouldRaise(c) == ~Outcome(c).ok
\* the first child to decide g, no child before it raising
FirstToDecide(g, i) ==
    /\ Decides(g, i)
    /\ \A h \in ChildrenOf(g) : h < i => Outcome(Child(g, h)).ok /\ ~Decides(g, h)
\* the evaluation of g with its children from the last to the first
Backwards(g) == is_valid([g[2] EXCEPT !.rules = Reverse(@)], TheFilters, g[1])

-----------------------------------------------------------------------------
(* two Filters classes that decorate an accessor of their own with the id
   "price", and a rule evaluated on an instance of either *)

\* the decorator in the body of each class: a shelf filters on its price in
\* hundredths, a basket on its category, a whole number up to 3
HostClasses ==
    [Shelf |-> [cls |-> "DoubleFilter", id |-> Str("price"), operators |-> NotGiven,
                validation |-> [min |-> Num(0), step |-> Milli(10)], func |-> "price"],
     Basket |-> [cls |-> "IntegerFilter", id |-> Str("price"), operators |-> NotGiven,
                 validation |-> [max |-> Num(3)], func |-> "category"]]

\* the classes defined so far, in the order of their definition
Defined == IF call = NoCall THEN <<>> ELSE call.defined

\* the body of the class is executed: its decorator registers its filter
DefineClass(c) ==
    /\ result = NotRun
    /\ \A i \in DOMAIN Defined : Defined[i] # c
    /\ registry' = FilterCall(registry,
                              FilterInit(HostClasses[c].cls, HostClasses[c].id,
                                         HostClasses[c].operators,
                                         HostClasses[c].validation).v,
                              HostClasses[c].func)
    /\ call' = [fn |-> "class", defined |-> Append(Defined, c)]
    /\ UNCHANGED <<py, input, parsed, dumped, reloaded, host, result>>

\* rule.is_valid(c(item)), c one of the classes
IsValidOn(c, item, order) ==
    /\ parsed.ok
    /\ host = Nothing
    /\ host' = [item |-> item, order |-> order, cls |-> c]
    /\ result' = is_valid(parsed.v, Filters(item, registry, py, order), 0)
    /\ UNCHANGED <<py, registry, input, parsed, dumped, reloaded, call>>

PriceLeaves ==
    {RuleLeaf("price", "double", op, v) :
        op \in {"equal", "less", "greater", "is_not_null"},
        v \in {Str("1"), Str("4"), Str("10.25")}}
HostItems ==
    {Item, [Item EXCEPT !.category = Num(4)], [Item EXCEPT !.price = Milli(10249)],
     [Item EXCEPT !.price = Num(1)]}

NextHosts ==
    \/ input = Nothing /\ \E x \in PriceLeaves : Construct(x)
    \/ \E c \in DOMAIN HostClasses : DefineClass(c)
    \/ /\ parsed.ok /\ host = Nothing
       /\ \E c \in DOMAIN HostClasses, item \in HostItems :
             \E order \in OrdersFor(registry, item, py) : IsValidOn(c, item, order)
SpecHosts == Init /\ [][NextHosts]_vars

\* the registry that holds nothing but the filter of the class defined last
OfLastDefined ==
    IF Defined = <<>> THEN [id \in FilterIds |-> NoFilter]
    ELSE LET d == HostClasses[Defined[Len(Defined)]] IN
         FilterCall([id \in FilterIds |-> NoFilter],
                    FilterInit(d.cls, d.id, d.operators, d.validation).v, d.func)

\* what the filter of the class defined last makes of the leaf on the host: its
\* accessor's value, validated by its rules and compared with the leaf's value
\* converted by its type
OnLastDefined(leaf) ==
    IF Defined = <<>> THEN Raise("KeyError") ELSE
    LET d == HostClasses[Defined[Len(Defined)]]
        filter == FilterInit(d.cls, d.id, d.operators, d.validation).v
        value == host.item[d.func]
        valid == validate(filter, value, py, host.order)
        converted == python_value(filter, leaf.value)
        handler == handler_for_operator(d.cls, leaf.operator)
    IN  IF ~valid.ok THEN valid
        ELSE IF ~valid.v THEN Ok(FALSE)
        ELSE IF ~converted.ok THEN converted
        ELSE IF ~handler.ok THEN handler
        ELSE call_handler(handler.v, operands_of(value, converted.v), py)

\* C30: a leaf is resolved through the one registry keyed by id, whatever the
\* class of the host. After two Filters classes have each registered an
\* accessor under one id, a leaf of that id evaluated on an instance of either
\* class calls the accessor, applies the validation and converts by the type of
\* the filter registered last.
HostClassIgnored ==
    Evaluated /\ parsed.ok =>
        /\ result = is_valid(parsed.v, Filters(host.item, OfLastDefined, py, host.order), 0)
        /\ SameOutcome(result, OnLastDefined(parsed.v))
        /\ Defined # <<>> =>
            LET d == HostClasses[Defined[Len(Defined)]] IN
            /\ Registered(parsed.v)
            /\ FilterOf(parsed.v).cls = d.cls
            /\ FilterOf(parsed.v).func = d.func
            /\ \A key \in DOMAIN d.validation :
                    FilterOf(parsed.v).validation[key] = d.validation[key]
            /\ HostValue(parsed.v) = host.item[d.func]
            /\ Did("func", Root)

\* a shelf evaluated after the basket was defined last: the basket's accessor
\* reads its category, 4, above the basket's max of 3, and the leaf is false at
\* the validation although the shelf's price is on the shelf's steps
HostClassIgnoredWitness ==
    /\ Evaluated /\ parsed.ok
    /\ Defined = <<"Shelf", "Basket">>
    /\ host.cls = "Shelf"
    /\ host.item.category = Num(4) /\ host.item.price = Num(10)
    /\ parsed.v.operator = "GREATER"
    /\ result.ok /\ ~result.v
    /\ Len(result.trace) = 4

=============================================================================
